---- MODULE Spec2Model ----
(***************************************************************************)
(* Applicant evaluation and ranking pipeline of the student evaluation     *)
(* system: the concurrent five-dimension evaluation                        *)
(* (agents/concurrent_evaluators.py), and the Celery task orchestrate_run  *)
(* (tasks/assessment_pipeline.py) with its per-applicant evaluation,       *)
(* gating, weighted ranking and pairwise refinement over the relational    *)
(* store (models/evaluation.py, models/assessment.py).                     *)
(*                                                                         *)
(* JSON values are records [t, v]: t is the Python type of the value and v *)
(* its magnitude in ten-thousandths (8 is 80000, 7.5 is 75000); v is 0     *)
(* for null, strings and lists, 10000 / 0 for true / false; s is the text   *)
(* of a string and "" otherwise.                                           *)
(***************************************************************************)
EXTENDS Integers, Sequences, FiniteSets, TLC

\* ------------------------------------------------------------------------
\* Bounds of the model
\* ------------------------------------------------------------------------
MaxApplicants == 2

RankApplicants == 3

MaxK == 2

MaxExecutions == 2

\* ------------------------------------------------------------------------
\* JSON values and the dicts the agents return
\* ------------------------------------------------------------------------
Null == [t |-> "null", v |-> 0, s |-> ""]

JTrue == [t |-> "bool", v |-> 10000, s |-> ""]

JFalse == [t |-> "bool", v |-> 0, s |-> ""]

JInt(n) == [t |-> "int", v |-> n * 10000, s |-> ""]

JFloat(m) == [t |-> "float", v |-> m, s |-> ""]

JStr(str) == [t |-> "str", v |-> 0, s |-> str]

JList == [t |-> "list", v |-> 0, s |-> ""]

\* a list of n items
JItems(n) == [t |-> "list", v |-> n, s |-> ""]

\* dict.get(key): the value, or None when the key is absent
Get(dict, key) == IF key \in DOMAIN dict THEN dict[key] ELSE Null

\* Python truthiness of a JSON value (None, False, 0, 0.0, "" and [] are falsy)
Truthy(j) ==
    CASE j.t = "null" -> FALSE
      [] j.t = "bool" -> j.v # 0
      [] j.t = "int" -> j.v # 0
      [] j.t = "float" -> j.v # 0
      [] j.t = "str" -> j.s # ""
      [] j.t = "list" -> j.v # 0
      [] OTHER -> FALSE

\* isinstance(x, int): Python's bool is a subclass of int
IsInstanceInt(j) == j.t \in {"int", "bool"}

\* the five dimensions, in the insertion order of the tasks dict
AgentNames == <<"english", "degree", "experience", "ps_rl", "academic">>

Dimensions == {AgentNames[i] : i \in 1..Len(AgentNames)}

\* ------------------------------------------------------------------------
\* What a dimension evaluator hands back (agents/evaluators.py)
\* ------------------------------------------------------------------------
\* the empty JSON object {}
EmptyDict == [k \in {} |-> Null]

EnglishDict(exemption, test_overall, score) ==
    [exemption |-> exemption, test_overall |-> test_overall, score |-> score,
     evidence |-> JList]

DegreeDict(meets_requirement, qs_rank, score) ==
    [meets_requirement |-> meets_requirement, qs_rank |-> qs_rank,
     score |-> score, evidence |-> JList]

ScoreDict(score) == [score |-> score, evidence |-> JList]

\* english_agent returns whatever object parses (only `result is None` is
\* checked), else its fallback with exemption False and test_overall None
EnglishFallback == EnglishDict(JFalse, Null, Null)

EnglishExempt == EnglishDict(JTrue, Null, JInt(10))

EnglishTested(score) == EnglishDict(JFalse, JFloat(75000), JInt(score))

EnglishBadScore == EnglishDict(JTrue, Null, JStr("high"))

english_agent ==
    {EnglishExempt, EnglishTested(8), EnglishTested(6), EnglishFallback,
     EmptyDict, EnglishBadScore}

\* degree_agent returns a dict with every required key and a non-null score,
\* else its all-null fallback
DegreeFallback == DegreeDict(Null, Null, Null)

degree_agent ==
    {DegreeDict(JTrue, Null, JInt(7)), DegreeDict(JTrue, JInt(50), JInt(9)),
     DegreeDict(JFalse, JInt(300), JInt(3)), DegreeDict(JTrue, JInt(900), JInt(6)),
     DegreeFallback}

\* experience_agent: required keys and a numeric score, else the fallback
experience_agent == {ScoreDict(JInt(6)), ScoreDict(Null)}

\* ps_rl_agent and academic_agent: whatever object parses, else the fallback
ps_rl_agent == {ScoreDict(JInt(6)), ScoreDict(Null)}

academic_agent == {ScoreDict(JInt(6)), ScoreDict(Null)}

AgentReturns(name) ==
    CASE name = "english" -> english_agent
      [] name = "degree" -> degree_agent
      [] name = "experience" -> experience_agent
      [] name = "ps_rl" -> ps_rl_agent
      [] OTHER -> academic_agent

\* ------------------------------------------------------------------------
\* run_concurrent_evaluation (agents/concurrent_evaluators.py)
\* ------------------------------------------------------------------------
\* the outcome of one awaited task: it returned a dict, or it raised
Returned(dict) == [kind |-> "returned", result |-> dict]

Raised == [kind |-> "raised", result |-> EmptyDict]

Running == [kind |-> "running", result |-> EmptyDict]

FailedResult ==
    [error |-> JStr("Agent execution failed"), exception_type |-> JStr("Exception")]

TimedOutResult == [error |-> JStr("Agent execution timed out after 2 minutes")]

\* gather without return_exceptions: the first exception fails the batch
GatherResultsFailFast(outcomes) ==
    [name \in Dimensions |->
        IF \E other \in Dimensions : outcomes[other].kind = "raised"
        THEN FailedResult
        ELSE outcomes[name].result]

\* lines 105-122: gather(return_exceptions=True) completed; every name is
\* mapped to its own result, an exception to an error dict
GatherResults(outcomes) ==
    [name \in Dimensions |->
        IF outcomes[name].kind = "raised" THEN FailedResult
        ELSE outcomes[name].result]

\* lines 124-131: wait_for raised TimeoutError; every name of tasks gets the
\* timeout dict, whatever its task had done
TimeoutResults(outcomes) == [name \in Dimensions |-> TimedOutResult]

VARIABLES tasks, agent_results, evalPc

evalVars == <<tasks, agent_results, evalPc>>

NoResults == [name \in {} |-> EmptyDict]

\* what the function returns for what its five tasks do within the 120 s
run_concurrent_evaluation(outcomes) ==
    IF \E name \in Dimensions : outcomes[name].kind = "running"
    THEN TimeoutResults(outcomes)
    ELSE GatherResults(outcomes)

\* ------------------------------------------------------------------------
\* Scoring (services/scoring.py)
\* ------------------------------------------------------------------------
\* defective weights: every dimension counts the same
WEIGHTS_Equal ==
    [english |-> 20, degree |-> 20, academic |-> 20, experience |-> 20, ps_rl |-> 20]

\* WEIGHTS, in percent
WEIGHTS ==
    [english |-> 10, degree |-> 50, academic |-> 15, experience |-> 15, ps_rl |-> 10]

\* a defective clamp without the upper limit
ClampLow(v) == IF v < 0 THEN 0 ELSE v

\* max(0.0, min(10.0, float(val)))
Clamp(v) == IF v < 0 THEN 0 ELSE IF v > 100000 THEN 100000 ELSE v

\* round(x, 4) of a value x given in millionths: the nearest ten-thousandth,
\* a tie going to the even one
Round4(x) ==
    LET q == x \div 100
        r == x % 100
    IN  IF r > 50 \/ (r = 50 /\ q % 2 = 1) THEN q + 1 ELSE q

\* weighted_total: `scores` maps each of the five names to a Float or None
weighted_total(scores) ==
    LET term(name) ==
            IF scores[name].t = "null" THEN 0
            ELSE WEIGHTS[name] * Clamp(scores[name].v)
    IN  Round4(term("english") + term("degree") + term("academic")
               + term("experience") + term("ps_rl"))

\* settings.PAIRWISE_EPS, in ten-thousandths
PAIRWISE_EPS == 3000

\* settings.PAIRWISE_K
PAIRWISE_K == 1

Abs(x) == IF x < 0 THEN 0 - x ELSE x

\* a defective closeness test that accepts twice the distance
is_close_Twice(a, b, eps) == Abs(a - b) <= 2 * eps

is_close(a, b, eps) == Abs(a - b) <= eps

\* ------------------------------------------------------------------------
\* The store (models/evaluation.py, models/assessment.py)
\* ------------------------------------------------------------------------
\* the value a Float column holds for a bound Python value: a number as a
\* float, None as NULL
FloatColumn(j) == IF j.t = "null" THEN Null ELSE JFloat(j.v)

\* PostgreSQL takes a number or NULL for a double precision column; the
\* flush of any other value (a string such as "high", a bool, a list) raises
Storable(j) == j.t \in {"null", "int", "float"}

\* ApplicantEvaluation(applicant_id, agent_name, score, details)
ApplicantEvaluation(score, details) == [score |-> score, details |-> details]

\* ApplicantGating(applicant_id, decision, reasons)
ApplicantGating(decision, reasons) == [decision |-> decision, reasons |-> reasons]

\* ApplicantRanking(applicant_id, weighted_score, final_rank); notes is NULL
\* (the empty sequence) until the first comparison
ApplicantRanking(weighted_score, final_rank) ==
    [weighted_score |-> weighted_score, final_rank |-> final_rank, notes |-> <<>>]

\* PairwiseComparison(run_id, applicant_a_id, applicant_b_id, winner, reason,
\* pass_index); created_at is the number of the execution that wrote the row
PairwiseComparison(a, b, winner, pass_index, created_at) ==
    [applicant_a_id |-> a, applicant_b_id |-> b, winner |-> winner,
     pass_index |-> pass_index, created_at |-> created_at]

\* ------------------------------------------------------------------------
\* Gating (tasks/assessment_pipeline.py, lines 388-406)
\* ------------------------------------------------------------------------
\* d = {e.agent_name: e for e in evals}: the last row of every agent that has
\* one; rows maps every name to the sequence of its rows
RowsByAgent(rows) ==
    [name \in {n \in DOMAIN rows : Len(rows[n]) > 0} |-> rows[name][Len(rows[name])]]

\* truthiness of e.details, a dict
DictTruthy(dict) == DOMAIN dict # {}

RejectBackground(d) ==
    /\ "background" \in DOMAIN d
    /\ DictTruthy(d["background"].details)
    /\ Get(d["background"].details, "fit") = JFalse

RejectDegree(d) ==
    /\ "degree" \in DOMAIN d
    /\ DictTruthy(d["degree"].details)
    /\ Get(d["degree"].details, "meets_requirement") = JFalse

RejectQs(d) ==
    /\ "degree" \in DOMAIN d
    /\ DictTruthy(d["degree"].details)
    /\ IsInstanceInt(Get(d["degree"].details, "qs_rank"))
    /\ Get(d["degree"].details, "qs_rank").v > 8000000

\* a defective English test that passes over a result that reports an error
RejectEnglish_UnlessError(d) ==
    /\ "english" \in DOMAIN d
    /\ DictTruthy(d["english"].details)
    /\ "error" \notin DOMAIN d["english"].details
    /\ ~Truthy(Get(d["english"].details, "exemption"))
    /\ Get(d["english"].details, "test_overall") = Null

RejectEnglish(d) ==
    /\ "english" \in DOMAIN d
    /\ DictTruthy(d["english"].details)
    /\ ~Truthy(Get(d["english"].details, "exemption"))
    /\ Get(d["english"].details, "test_overall") = Null

\* a defective rank test that lets a missing rank count as a top-100 rank
good_qs_MissingRankPasses(d) ==
    /\ "degree" \in DOMAIN d
    /\ \/ ~IsInstanceInt(Get(d["degree"].details, "qs_rank"))
       \/ Get(d["degree"].details, "qs_rank").v <= 1000000

good_qs(d) ==
    /\ "degree" \in DOMAIN d
    /\ DictTruthy(d["degree"].details)
    /\ IsInstanceInt(Get(d["degree"].details, "qs_rank"))
    /\ Get(d["degree"].details, "qs_rank").v <= 1000000

strong_degree(d) ==
    /\ "degree" \in DOMAIN d
    /\ Truthy(d["degree"].score)
    /\ d["degree"].score.v >= 80000

IsReject(d) == RejectBackground(d) \/ RejectDegree(d) \/ RejectQs(d) \/ RejectEnglish(d)

GateDecision(d) ==
    IF IsReject(d) THEN "REJECT"
    ELSE IF good_qs(d) /\ strong_degree(d) THEN "ACCEPT"
    ELSE "MIDDLE"

GateReasons(d) ==
    (IF RejectBackground(d) THEN <<"Background not satisfied">> ELSE <<>>)
    \o (IF RejectDegree(d) THEN <<"Degree below requirement">> ELSE <<>>)
    \o (IF RejectQs(d) THEN <<"QS rank below threshold">> ELSE <<>>)
    \o (IF RejectEnglish(d) THEN <<"No English test and no exemption">> ELSE <<>>)
    \o (IF ~IsReject(d) /\ good_qs(d) /\ strong_degree(d)
        THEN <<"High QS and strong degree">> ELSE <<>>)

\* ------------------------------------------------------------------------
\* orchestrate_run (tasks/assessment_pipeline.py): state
\* ------------------------------------------------------------------------
\* the Celery workers that can execute the task
Workers == {"w1", "w2"}

VARIABLES
    run_status,     \* AssessmentRun.status
    queue,          \* orchestrate_run tasks enqueued and not yet picked up
    executions,     \* orchestrate_run.delay calls made so far
    applicants,     \* the applicants of the run, in query order
    K,              \* max(0, int(settings.PAIRWISE_K)) of the deployment
    evals,          \* applicant_evaluations: applicant -> agent_name -> rows
    gating,         \* applicant_gating: applicant -> rows
    ranking,        \* applicant_ranking: applicant -> rows
    pairwise,       \* pairwise_comparisons of the run, in insertion order
    pc,             \* per worker: where its execution stands
    cur,            \* per worker: index of the applicant loop
    scores,         \* per worker: the list of (applicant id, score) tuples
    pass_idx,       \* per worker: pass_idx of the Bradley-Terry loop
    pair_i,         \* per worker: i of the adjacent-pair loop, from 1
    exec_no,        \* per worker: which execution it runs (1, 2, ...)
    outcome,        \* per worker: how its last execution ended
    pending,        \* per worker: needed_agents while its evaluators run
    swaps,          \* history: comparisons won by the lower-scored applicant
    first_run       \* history: the ranking rows and verdicts of execution 1

\* one evaluator or comparator call (agents/evaluators.py)
VARIABLES
    agentName,      \* which agent function is called
    replies,        \* what each judgment call of the agent will answer
    asked,          \* number of _ask_agent calls made so far
    agentPc,        \* where the call stands
    agentResult     \* what the call returned

\* one call of a pure function
VARIABLES
    fn_args,        \* the arguments
    fn_ret          \* the value returned, once the call is made

agentVars == <<agentName, replies, asked, agentPc, agentResult>>

fnVars == <<fn_args, fn_ret>>

storeVars == <<run_status, evals, gating, ranking, pairwise>>

localVars == <<pc, cur, scores, pass_idx, pair_i, exec_no, outcome, pending>>

pipeVars == <<storeVars, localVars, queue, executions, applicants, K, swaps, first_run>>

vars == <<evalVars, pipeVars, agentVars, fnVars>>

\* what an action of the pipeline, of the concurrent evaluation, of an agent
\* call, of a function call leaves alone
besidePipeline == <<evalVars, agentVars, fnVars>>

besideEval == <<pipeVars, agentVars, fnVars>>

besideAgent == <<evalVars, pipeVars, fnVars>>

besideFn == <<evalVars, pipeVars, agentVars>>

\* no execution has completed yet
NoFirstRun == [done |-> FALSE, exec |-> 0, ranking |-> <<>>, verdicts |-> <<>>]

\* the variables of an agent call and of a function call, when the
\* specification is about something else
AgentUnused ==
    /\ agentName = "none"
    /\ replies = <<>>
    /\ asked = 0
    /\ agentPc = "unused"
    /\ agentResult = <<>>

FnUnused ==
    /\ fn_args = <<>>
    /\ fn_ret = <<>>


Applicants == {applicants[i] : i \in 1..Len(applicants)}

NoRows == <<>>

\* the store of a run whose applicants have been uploaded and not evaluated
EmptyStore(n) ==
    /\ applicants = [i \in 1..n |-> i]
    /\ evals = [a \in 1..n |-> [name \in Dimensions |-> NoRows]]
    /\ gating = [a \in 1..n |-> NoRows]
    /\ ranking = [a \in 1..n |-> NoRows]
    /\ pairwise = <<>>

IdleWorkers ==
    /\ pc = [p \in Workers |-> "idle"]
    /\ cur = [p \in Workers |-> 1]
    /\ scores = [p \in Workers |-> <<>>]
    /\ pass_idx = [p \in Workers |-> 0]
    /\ pair_i = [p \in Workers |-> 1]
    /\ exec_no = [p \in Workers |-> 0]
    /\ outcome = [p \in Workers |-> "none"]
    /\ pending = [p \in Workers |-> {}]

\* the evaluation variables, when the specification is about the pipeline
EvalUnused ==
    /\ tasks = [name \in Dimensions |-> Running]
    /\ agent_results = NoResults
    /\ evalPc = "unused"

InitPipeline ==
    /\ EvalUnused
    /\ AgentUnused
    /\ FnUnused
    /\ EmptyStore(MaxApplicants)
    /\ IdleWorkers
    /\ run_status = "uploaded"
    /\ queue = 0
    /\ executions = 0
    /\ K = PAIRWISE_K
    /\ swaps = {}
    /\ first_run = NoFirstRun

\* ------------------------------------------------------------------------
\* orchestrate_run: what the evaluators of one applicant can do
\* ------------------------------------------------------------------------
\* every evaluator returns a contract-conforming result
AllReturn ==
    [name \in Dimensions |->
        CASE name = "english" -> Returned(EnglishExempt)
          [] name = "degree" -> Returned(DegreeDict(JTrue, Null, JInt(7)))
          [] OTHER -> Returned(ScoreDict(JInt(6)))]

With(outcomes, name, o) == [outcomes EXCEPT ![name] = o]

\* the behaviours of the five tasks the pipeline is explored with: successes
\* with different scores and gating outcomes, evaluators that raise, one that
\* is still running after 120 s, and contract-violating English replies
Scenarios ==
    {AllReturn,
     With(AllReturn, "english", Returned(EnglishTested(8))),
     With(AllReturn, "english", Returned(EnglishTested(6))),
     With(AllReturn, "degree", Returned(DegreeDict(JTrue, JInt(50), JInt(9)))),
     With(AllReturn, "degree", Returned(DegreeDict(JFalse, JInt(300), JInt(3)))),
     With(AllReturn, "english", Raised),
     With(With(AllReturn, "degree", Returned(DegreeDict(JTrue, JInt(50), JInt(9)))),
          "english", Raised),
     With(With(AllReturn, "experience", Raised), "academic", Raised),
     With(AllReturn, "ps_rl", Running),
     With(AllReturn, "english", Returned(EmptyDict)),
     With(AllReturn, "english", Returned(EnglishBadScore)),
     [name \in Dimensions |-> Raised]}

\* ------------------------------------------------------------------------
\* orchestrate_run: helpers
\* ------------------------------------------------------------------------
\* lines 349-366: the row saved for one needed agent
EvaluationRow(result) ==
    IF "error" \in DOMAIN result
    THEN ApplicantEvaluation(Null, result)
    ELSE ApplicantEvaluation(Get(result, "score"), result)

\* the row as the store holds it after the commit
StoredRow(result) == [EvaluationRow(result) EXCEPT !.score = FloatColumn(@)]

\* a defective selection that also runs the agents whose stored score is null
needed_agents_RetryNull(rows) ==
    {name \in Dimensions :
        Len(rows[name]) = 0 \/ rows[name][Len(rows[name])].score = Null}

\* lines 302-309: the agents with no stored evaluation
needed_agents(rows) == {name \in Dimensions : Len(rows[name]) = 0}

\* a defective write that inserts a gating row without looking for the stored one
InsertGating(rows, decision, reasons) ==
    Append(rows, ApplicantGating(decision, reasons))

\* lines 408-414: update the applicant's gating row, or insert the first one
UpsertGating(rows, decision, reasons) ==
    IF Len(rows) = 0
    THEN <<ApplicantGating(decision, reasons)>>
    ELSE [rows EXCEPT ![1] = [@ EXCEPT !.decision = decision, !.reasons = reasons]]

\* lines 433-439: update weighted_score and final_rank, or insert the row
UpsertRanking(rows, sc, rank) ==
    IF Len(rows) = 0
    THEN <<ApplicantRanking(JFloat(sc), rank)>>
    ELSE [rows EXCEPT ![1] = [@ EXCEPT !.weighted_score = JFloat(sc), !.final_rank = rank]]

\* list.sort(key=lambda x: x[1], reverse=True): stable, highest score first
InsertDesc(sorted, x) ==
    LET k == Cardinality({j \in 1..Len(sorted) : sorted[j].sc >= x.sc})
    IN  SubSeq(sorted, 1, k) \o <<x>> \o SubSeq(sorted, k + 1, Len(sorted))

RECURSIVE SortDesc(_)
SortDesc(list) ==
    IF Len(list) <= 1 THEN list
    ELSE InsertDesc(SortDesc(SubSeq(list, 1, Len(list) - 1)), list[Len(list)])

\* lines 418-430: the (id, weighted_total) tuples of the MIDDLE applicants,
\* in the order of `applicants`
RECURSIVE MiddleScores(_, _, _)
MiddleScores(list, gates, rows) ==
    IF Len(list) = 0 THEN <<>>
    ELSE LET a == list[1]
             d == RowsByAgent(rows[a])
             score(name) == IF name \in DOMAIN d THEN d[name].score ELSE Null
             total == weighted_total([name \in Dimensions |-> score(name)])
             rest == MiddleScores(Tail(list), gates, rows)
         IN  IF gates[a][1].decision = "MIDDLE"
             THEN <<[aid |-> a, sc |-> total]>> \o rest
             ELSE rest

\* the position of an applicant in a list of tuples (0 when absent)
PositionOf(list, a) ==
    IF \E j \in 1..Len(list) : list[j].aid = a
    THEN CHOOSE j \in 1..Len(list) : list[j].aid = a
    ELSE 0

\* a defective rank assignment that enumerates from 0 instead of start=1
RankAllFromZero(rows, list, withScore) ==
    [a \in DOMAIN rows |->
        LET j == PositionOf(list, a)
        IN  IF j = 0 THEN rows[a]
            ELSE IF withScore THEN UpsertRanking(rows[a], list[j].sc, j - 1)
            ELSE IF Len(rows[a]) = 0 THEN rows[a]
            ELSE [rows[a] EXCEPT ![1] = [@ EXCEPT !.final_rank = j - 1]]]

\* lines 432-439 and 491-495: every listed applicant gets its position as rank
RankAll(rows, list, withScore) ==
    [a \in DOMAIN rows |->
        LET j == PositionOf(list, a)
        IN  IF j = 0 THEN rows[a]
            ELSE IF withScore THEN UpsertRanking(rows[a], list[j].sc, j)
            ELSE IF Len(rows[a]) = 0 THEN rows[a]
            ELSE [rows[a] EXCEPT ![1] = [@ EXCEPT !.final_rank = j]]]

\* a defective exchange that follows every verdict naming an applicant,
\* whatever the order of the two scores
SwapScores_AnyVerdict(list, i, winner) ==
    IF winner \in {"A", "B"}
    THEN [list EXCEPT ![i] = [@ EXCEPT !.sc = list[i + 1].sc],
                      ![i + 1] = [@ EXCEPT !.sc = list[i].sc]]
    ELSE list

\* lines 472-480: the two tuples after the verdict
SwapScores(list, i, winner) ==
    LET sc1 == list[i].sc
        sc2 == list[i + 1].sc
    IN  IF (winner = "A" /\ sc1 < sc2) \/ (winner = "B" /\ sc2 < sc1)
        THEN [list EXCEPT ![i] = [@ EXCEPT !.sc = sc2], ![i + 1] = [@ EXCEPT !.sc = sc1]]
        ELSE list

\* lines 482-487: the trace line appended to the applicant's notes
AnnotateNotes(rows, other, winner) ==
    IF Len(rows) = 0 THEN rows
    ELSE [rows EXCEPT ![1] = [@ EXCEPT !.notes = Append(@, <<other, winner>>)]]

\* compare_agent returns one of these winners
Verdicts == {"A", "B", "tie"}

\* ------------------------------------------------------------------------
\* orchestrate_run: actions, one per committed step of the task
\* ------------------------------------------------------------------------
\* no execution is enqueued or under way
Quiescent == queue = 0 /\ \A p \in Workers : pc[p] = "idle"

\* the function's locals die with the call
Leave(p, how) ==
    /\ pc' = [pc EXCEPT ![p] = "idle"]
    /\ outcome' = [outcome EXCEPT ![p] = how]
    /\ cur' = [cur EXCEPT ![p] = 1]
    /\ scores' = [scores EXCEPT ![p] = <<>>]
    /\ pass_idx' = [pass_idx EXCEPT ![p] = 0]
    /\ pair_i' = [pair_i EXCEPT ![p] = 1]
    /\ pending' = [pending EXCEPT ![p] = {}]
    /\ UNCHANGED exec_no

\* an exception leaves the task through `finally: db.close()`: what was not
\* committed is rolled back and run.status stays as it is
Abort(p, cause) ==
    /\ Leave(p, cause)
    /\ UNCHANGED <<storeVars, queue, executions, applicants, K, swaps, first_run>>

\* api/routes/assessments.py start_run: status "processing", task enqueued
start_run ==
    /\ executions < MaxExecutions
    /\ UNCHANGED besidePipeline
    /\ run_status' = "processing"
    /\ queue' = queue + 1
    /\ executions' = executions + 1
    /\ UNCHANGED <<evals, gating, ranking, pairwise, localVars, applicants, K, swaps, first_run>>

\* lines 37-44: a worker picks the task up and marks the run processing
BeginRun(p) ==
    /\ pc[p] = "idle"
    /\ UNCHANGED besidePipeline
    /\ queue > 0
    /\ queue' = queue - 1
    /\ run_status' = "processing"
    /\ pc' = [pc EXCEPT ![p] = "evaluate"]
    /\ cur' = [cur EXCEPT ![p] = 1]
    /\ exec_no' = [exec_no EXCEPT ![p] = executions - queue + 1]
    /\ outcome' = [outcome EXCEPT ![p] = "running"]
    /\ UNCHANGED <<evals, gating, ranking, pairwise, scores, pass_idx, pair_i,
                   pending, executions, applicants, K, swaps, first_run>>

\* the applicant loop moves on, or the gating loop starts
NextApplicant(p, after) ==
    IF cur[p] < Len(applicants)
    THEN /\ cur' = [cur EXCEPT ![p] = cur[p] + 1]
         /\ UNCHANGED pc
    ELSE /\ cur' = [cur EXCEPT ![p] = 1]
         /\ pc' = [pc EXCEPT ![p] = after]

\* line 278: detect_degree_country raises (its judgment call is not guarded)
DetectRaises(p) ==
    /\ pc[p] = "evaluate"
    /\ UNCHANGED besidePipeline
    /\ Abort(p, "detect")

\* lines 300-311, 381: the applicant has a row for every agent
SkipEvaluated(p) ==
    /\ pc[p] = "evaluate"
    /\ UNCHANGED besidePipeline
    /\ needed_agents(evals[applicants[cur[p]]]) = {}
    /\ NextApplicant(p, "gating")
    /\ UNCHANGED <<storeVars, scores, pass_idx, pair_i, exec_no, pending, outcome,
                   queue, executions, applicants, K, swaps, first_run>>

\* lines 311-381: the five agents run, the needed results are saved and
\* committed; the flush of a score PostgreSQL cannot store raises
RunAgents(p) ==
    /\ pc[p] = "evaluate"
    /\ UNCHANGED besidePipeline
    /\ LET a == applicants[cur[p]]
           needed == needed_agents(evals[a])
       IN  /\ needed # {}
           /\ \E sc \in Scenarios :
                LET results == run_concurrent_evaluation(sc)
                    row(name) == EvaluationRow(results[name])
                IN  IF \A name \in needed : Storable(row(name).score)
                    THEN /\ evals' = [evals EXCEPT ![a] =
                                [name \in Dimensions |->
                                    IF name \in needed
                                    THEN Append(evals[a][name], StoredRow(results[name]))
                                    ELSE evals[a][name]]]
                         /\ NextApplicant(p, "gating")
                         /\ UNCHANGED <<run_status, gating, ranking, pairwise, scores,
                                        pass_idx, pair_i, exec_no, pending, outcome, queue,
                                        executions, applicants, K, swaps, first_run>>
                    ELSE Abort(p, "flush")

\* lines 387-415: the gating decision of one applicant, upserted
GateApplicant(p) ==
    /\ pc[p] = "gating"
    /\ UNCHANGED besidePipeline
    /\ LET a == applicants[cur[p]]
           d == RowsByAgent(evals[a])
       IN  gating' = [gating EXCEPT ![a] = UpsertGating(@, GateDecision(d), GateReasons(d))]
    /\ NextApplicant(p, "ranking")
    /\ UNCHANGED <<run_status, evals, ranking, pairwise, scores, pass_idx, pair_i,
                   exec_no, pending, outcome, queue, executions, applicants, K, swaps, first_run>>

\* lines 417-440: weighted totals of the MIDDLE applicants, sorted, upserted
InitialRanking(p) ==
    /\ pc[p] = "ranking"
    /\ UNCHANGED besidePipeline
    /\ LET sorted == SortDesc(MiddleScores(applicants, gating, evals))
       IN  /\ scores' = [scores EXCEPT ![p] = sorted]
           /\ ranking' = RankAll(ranking, sorted, TRUE)
    /\ pc' = [pc EXCEPT ![p] = "clear"]
    /\ UNCHANGED <<run_status, evals, gating, pairwise, cur, pass_idx, pair_i,
                   exec_no, pending, outcome, queue, executions, applicants, K, swaps, first_run>>

\* a defective start of the refinement that leaves the stored comparisons in place
KeepPairwise(p) ==
    /\ pc[p] = "clear"
    /\ UNCHANGED besidePipeline
    /\ pass_idx' = [pass_idx EXCEPT ![p] = 0]
    /\ pc' = [pc EXCEPT ![p] = IF K > 0 THEN "pass" ELSE "complete"]
    /\ UNCHANGED <<run_status, evals, gating, ranking, cur, scores, pair_i, pairwise,
                   exec_no, pending, outcome, queue, executions, applicants, K, swaps, first_run>>

\* lines 443-449: the run's earlier comparisons are deleted; range(K) starts
ClearPairwise(p) ==
    /\ pc[p] = "clear"
    /\ UNCHANGED besidePipeline
    /\ pairwise' = <<>>
    /\ pass_idx' = [pass_idx EXCEPT ![p] = 0]
    /\ pc' = [pc EXCEPT ![p] = IF K > 0 THEN "pass" ELSE "complete"]
    /\ UNCHANGED <<run_status, evals, gating, ranking, cur, scores, pair_i,
                   exec_no, pending, outcome, queue, executions, applicants, K, swaps, first_run>>

\* lines 451-452: the pass sorts the list and starts the adjacent-pair loop
BeginPass(p) ==
    /\ pc[p] = "pass"
    /\ UNCHANGED besidePipeline
    /\ scores' = [scores EXCEPT ![p] = SortDesc(scores[p])]
    /\ pair_i' = [pair_i EXCEPT ![p] = 1]
    /\ pc' = [pc EXCEPT ![p] = IF Len(scores[p]) >= 2 THEN "pair" ELSE "assign"]
    /\ UNCHANGED <<storeVars, cur, pass_idx, exec_no, pending, outcome, queue, executions,
                   applicants, K, swaps, first_run>>

\* the adjacent-pair loop moves on, or the pass assigns the ranks
NextPair(p) ==
    IF pair_i[p] < Len(scores[p]) - 1
    THEN /\ pair_i' = [pair_i EXCEPT ![p] = pair_i[p] + 1]
         /\ UNCHANGED pc
    ELSE /\ pair_i' = [pair_i EXCEPT ![p] = 1]
         /\ pc' = [pc EXCEPT ![p] = "assign"]

PairIsClose(p) ==
    is_close(scores[p][pair_i[p]].sc, scores[p][pair_i[p] + 1].sc, PAIRWISE_EPS)

\* lines 453-456: the pair is not close, continue
SkipPair(p) ==
    /\ pc[p] = "pair"
    /\ UNCHANGED besidePipeline
    /\ ~PairIsClose(p)
    /\ NextPair(p)
    /\ UNCHANGED <<storeVars, cur, scores, pass_idx, exec_no, pending, outcome, queue,
                   executions, applicants, K, swaps, first_run>>

\* line 464: the comparator's judgment call raises (compare_agent guards
\* only the parsing)
CompareRaises(p) ==
    /\ pc[p] = "pair"
    /\ UNCHANGED besidePipeline
    /\ PairIsClose(p)
    /\ Abort(p, "compare")

\* lines 457-488: the pair is compared, the comparison persisted, the scores
\* exchanged when the verdict contradicts them, the notes annotated
ComparePair(p) ==
    /\ pc[p] = "pair"
    /\ UNCHANGED besidePipeline
    /\ PairIsClose(p)
    /\ \E winner \in Verdicts :
        LET i == pair_i[p]
            aid1 == scores[p][i].aid
            aid2 == scores[p][i + 1].aid
            sc1 == scores[p][i].sc
            sc2 == scores[p][i + 1].sc
        IN  /\ pairwise' = Append(pairwise,
                    PairwiseComparison(aid1, aid2, winner, pass_idx[p], exec_no[p]))
            /\ scores' = [scores EXCEPT ![p] = SwapScores(scores[p], i, winner)]
            /\ ranking' = [ranking EXCEPT
                    ![aid1] = AnnotateNotes(@, aid2, winner),
                    ![aid2] = AnnotateNotes(@, aid1, winner)]
            /\ swaps' = swaps \cup
                    (IF winner = "B" /\ sc2 < sc1
                     THEN {[exec |-> exec_no[p], pass |-> pass_idx[p],
                            winner |-> aid2, loser |-> aid1]}
                     ELSE IF winner = "A" /\ sc1 < sc2
                     THEN {[exec |-> exec_no[p], pass |-> pass_idx[p],
                            winner |-> aid1, loser |-> aid2]}
                     ELSE {})
    /\ NextPair(p)
    /\ UNCHANGED <<run_status, evals, gating, cur, pass_idx, exec_no, pending,
                   outcome, queue, executions, applicants, K, first_run>>

\* lines 489-496: the list is sorted again and the ranks are assigned
AssignRanks(p) ==
    /\ pc[p] = "assign"
    /\ UNCHANGED besidePipeline
    /\ LET sorted == SortDesc(scores[p])
       IN  /\ scores' = [scores EXCEPT ![p] = sorted]
           /\ ranking' = RankAll(ranking, sorted, FALSE)
    /\ pass_idx' = [pass_idx EXCEPT ![p] = pass_idx[p] + 1]
    /\ pc' = [pc EXCEPT ![p] = IF pass_idx[p] + 1 < K THEN "pass" ELSE "complete"]
    /\ UNCHANGED <<run_status, evals, gating, pairwise, cur, pair_i, exec_no, pending,
                   outcome, queue, executions, applicants, K, swaps, first_run>>

\* lines 498-501: the run is marked completed
CompleteRun(p) ==
    /\ pc[p] = "complete"
    /\ UNCHANGED besidePipeline
    /\ run_status' = "completed"
    /\ Leave(p, "ok")
    /\ first_run' = IF first_run.done THEN first_run
                    ELSE [done |-> TRUE, exec |-> exec_no[p], ranking |-> ranking,
                          verdicts |-> [i \in 1..Len(pairwise) |->
                                          <<pairwise[i].applicant_a_id,
                                            pairwise[i].applicant_b_id,
                                            pairwise[i].winner, pairwise[i].pass_index>>]]
    /\ UNCHANGED <<evals, gating, ranking, pairwise, queue, executions,
                   applicants, K, swaps>>

Step(p) ==
    \/ BeginRun(p)
    \/ DetectRaises(p)
    \/ SkipEvaluated(p)
    \/ RunAgents(p)
    \/ GateApplicant(p)
    \/ InitialRanking(p)
    \/ ClearPairwise(p)
    \/ BeginPass(p)
    \/ SkipPair(p)
    \/ CompareRaises(p)
    \/ ComparePair(p)
    \/ AssignRanks(p)
    \/ CompleteRun(p)

\* executions of the task one after the other, on one worker
StartNextRun == Quiescent /\ start_run

Next ==
    \/ StartNextRun
    \/ Step("w1")

Spec == InitPipeline /\ [][Next]_vars

\* ------------------------------------------------------------------------
\* The concurrent evaluation of one applicant alone
\* ------------------------------------------------------------------------
\* one of the five coroutines returns its dict
AgentReturn(name) ==
    /\ evalPc = "gathering"
    /\ UNCHANGED besideEval
    /\ tasks[name].kind = "running"
    /\ \E dict \in AgentReturns(name) :
          tasks' = [tasks EXCEPT ![name] = Returned(dict)]
    /\ UNCHANGED <<agent_results, evalPc>>

\* one of the five coroutines raises
AgentRaise(name) ==
    /\ evalPc = "gathering"
    /\ UNCHANGED besideEval
    /\ tasks[name].kind = "running"
    /\ tasks' = [tasks EXCEPT ![name] = Raised]
    /\ UNCHANGED <<agent_results, evalPc>>

\* every task is done: gather delivers the list and the function returns
GatherDone ==
    /\ evalPc = "gathering"
    /\ UNCHANGED besideEval
    /\ \A name \in Dimensions : tasks[name].kind # "running"
    /\ agent_results' = GatherResults(tasks)
    /\ evalPc' = "returned"
    /\ UNCHANGED tasks

\* 120 s pass with a task still running: wait_for cancels the gather
GatherTimeout ==
    /\ evalPc = "gathering"
    /\ UNCHANGED besideEval
    /\ \E name \in Dimensions : tasks[name].kind = "running"
    /\ agent_results' = TimeoutResults(tasks)
    /\ evalPc' = "timeout"
    /\ UNCHANGED tasks

PipelineUnused ==
    /\ EmptyStore(1)
    /\ IdleWorkers
    /\ run_status = "processing"
    /\ queue = 0
    /\ executions = 0
    /\ K = PAIRWISE_K
    /\ swaps = {}
    /\ first_run = NoFirstRun

InitConcurrent ==
    /\ tasks = [name \in Dimensions |-> Running]
    /\ agent_results = NoResults
    /\ evalPc = "gathering"
    /\ PipelineUnused
    /\ AgentUnused
    /\ FnUnused

NextEval ==
    \/ \E name \in Dimensions : AgentReturn(name)
    \/ \E name \in Dimensions : AgentRaise(name)
    \/ GatherDone
    \/ GatherTimeout

SpecEval == InitConcurrent /\ [][NextEval]_vars

\* ------------------------------------------------------------------------
\* The ranking stage alone: the run right after gating, for any K
\* ------------------------------------------------------------------------
\* evaluations that gate MIDDLE, with weighted totals 6.9, 6.7 and 6.5
MiddleScenarios ==
    {AllReturn,
     With(AllReturn, "english", Returned(EnglishTested(8))),
     With(AllReturn, "english", Returned(EnglishTested(6)))}

\* the same, and evaluations that gate REJECT (the English evaluator raised),
\* so that fewer applicants than RankApplicants may be MIDDLE
RankScenarios == MiddleScenarios \cup {With(AllReturn, "english", Raised)}

EvaluatedRows(sc) ==
    [name \in Dimensions |-> <<StoredRow(run_concurrent_evaluation(sc)[name])>>]

GatedRows(rows) ==
    <<ApplicantGating(GateDecision(RowsByAgent(rows)), GateReasons(RowsByAgent(rows)))>>

InitRank ==
    /\ EvalUnused
    /\ AgentUnused
    /\ FnUnused
    /\ applicants = [i \in 1..RankApplicants |-> i]
    /\ evals \in [1..RankApplicants -> {EvaluatedRows(sc) : sc \in RankScenarios}]
    /\ gating = [a \in 1..RankApplicants |-> GatedRows(evals[a])]
    /\ ranking = [a \in 1..RankApplicants |-> NoRows]
    /\ pairwise = <<>>
    /\ run_status = "processing"
    /\ queue = 0
    /\ executions = 1
    /\ K \in 0..MaxK
    /\ swaps = {}
    /\ first_run = NoFirstRun
    /\ pc = [p \in Workers |-> IF p = "w1" THEN "ranking" ELSE "idle"]
    /\ cur = [p \in Workers |-> 1]
    /\ scores = [p \in Workers |-> <<>>]
    /\ pass_idx = [p \in Workers |-> 0]
    /\ pair_i = [p \in Workers |-> 1]
    /\ exec_no = [p \in Workers |-> IF p = "w1" THEN 1 ELSE 0]
    /\ outcome = [p \in Workers |-> IF p = "w1" THEN "running" ELSE "none"]
    /\ pending = [p \in Workers |-> {}]

NextRank ==
    \/ InitialRanking("w1")
    \/ ClearPairwise("w1")
    \/ BeginPass("w1")
    \/ SkipPair("w1")
    \/ CompareRaises("w1")
    \/ ComparePair("w1")
    \/ AssignRanks("w1")
    \/ CompleteRun("w1")

SpecRank == InitRank /\ [][NextRank]_vars

\* ------------------------------------------------------------------------
\* The gating step alone, over every combination of stored results
\* ------------------------------------------------------------------------
ErrorRows == {<<StoredRow(FailedResult)>>, <<StoredRow(TimedOutResult)>>}

DegreeRanks ==
    {Null, JInt(50), JInt(100), JInt(101), JInt(800), JInt(801),
     JFloat(500000), JFloat(9000000), JStr("801-1000")}

DegreeScores == {Null, JInt(0), JFloat(79000), JInt(8), JInt(10)}

DegreeRowsForGate ==
    {NoRows} \cup ErrorRows \cup
    {<<StoredRow(DegreeDict(m, q, sc))>> :
        m \in {JTrue, JFalse, Null}, q \in DegreeRanks, sc \in DegreeScores}

EnglishRowsForGate ==
    {NoRows, <<StoredRow(EmptyDict)>>} \cup ErrorRows \cup
    {<<StoredRow(EnglishDict(e, t, sc))>> :
        e \in {JTrue, JFalse, Null}, t \in {Null, JFloat(75000), JInt(0)},
        sc \in {Null, JInt(7)}}

OtherRowsForGate == {<<StoredRow(ScoreDict(JInt(6)))>>, <<StoredRow(ScoreDict(Null))>>}

InitGate ==
    /\ EvalUnused
    /\ AgentUnused
    /\ FnUnused
    /\ applicants = <<1>>
    /\ \E deg \in DegreeRowsForGate, eng \in EnglishRowsForGate, oth \in OtherRowsForGate :
          evals = [a \in {1} |->
                    [name \in Dimensions |->
                        CASE name = "degree" -> deg
                          [] name = "english" -> eng
                          [] OTHER -> oth]]
    /\ gating = [a \in {1} |-> NoRows]
    /\ ranking = [a \in {1} |-> NoRows]
    /\ pairwise = <<>>
    /\ run_status = "processing"
    /\ queue = 0
    /\ executions = 1
    /\ K = PAIRWISE_K
    /\ swaps = {}
    /\ first_run = NoFirstRun
    /\ pc = [p \in Workers |-> IF p = "w1" THEN "gating" ELSE "idle"]
    /\ cur = [p \in Workers |-> 1]
    /\ scores = [p \in Workers |-> <<>>]
    /\ pass_idx = [p \in Workers |-> 0]
    /\ pair_i = [p \in Workers |-> 1]
    /\ exec_no = [p \in Workers |-> IF p = "w1" THEN 1 ELSE 0]
    /\ outcome = [p \in Workers |-> IF p = "w1" THEN "running" ELSE "none"]
    /\ pending = [p \in Workers |-> {}]

NextGate == GateApplicant("w1")

SpecGate == InitGate /\ [][NextGate]_vars

\* ========================================================================
\* Claims
\* ========================================================================

\* C1: when the global timeout fires, only the evaluators still running get
\* the timeout-marked result; every evaluator that had finished before keeps
\* its own result (its dict, or its error entry) in the returned map.
C1_FinishedKeepOwnResultOnTimeout ==
    evalPc = "timeout" =>
        \A name \in Dimensions :
            /\ tasks[name].kind = "running" => agent_results[name] = TimedOutResult
            /\ tasks[name].kind = "returned" => agent_results[name] = tasks[name].result
            /\ tasks[name].kind = "raised" => agent_results[name] = FailedResult

\* C2: in every outcome the returned map has exactly the five keys; without
\* a timeout every evaluator that returned has its own result unchanged in
\* the map and every evaluator that raised has an error-annotated entry.
C2_FullMapAndIsolatedFailures ==
    evalPc \in {"returned", "timeout"} =>
        /\ DOMAIN agent_results = {"english", "degree", "experience", "ps_rl", "academic"}
        /\ evalPc = "returned" =>
              \A name \in Dimensions :
                  /\ tasks[name].kind = "returned" =>
                        agent_results[name] = tasks[name].result
                  /\ tasks[name].kind = "raised" =>
                        "error" \in DOMAIN agent_results[name]

\* C2 witness: the gather completed with one evaluator raised and the others
\* returned
C2_Witness ==
    /\ evalPc = "returned"
    /\ tasks["degree"].kind = "raised"
    /\ \A name \in Dimensions \ {"degree"} : tasks[name].kind = "returned"
    /\ agent_results["english"] = tasks["english"].result

\* C3: every execution of orchestrate_run ends with the run 'completed', an
\* evaluation of each of the five dimensions and a gating decision stored for
\* every applicant, whatever the dimension evaluators do (raise, time out,
\* return contract-violating output). Stated for the executions in which no
\* judgment call outside the five evaluators raised.
C3_RunAlwaysCompletes ==
    \A p \in Workers :
        (Quiescent /\ outcome[p] \notin {"none", "running", "detect", "compare"}) =>
            /\ run_status = "completed"
            /\ \A a \in Applicants :
                  /\ \A name \in Dimensions : Len(evals[a][name]) >= 1
                  /\ Len(gating[a]) >= 1

\* the stored results the gating claims speak of
DegreeDetails == evals[1]["degree"][1].details

EnglishDetails == evals[1]["english"][1].details

Gated == pc["w1"] = "ranking" /\ Len(gating[1]) = 1

ShowsIntegerRank == Get(DegreeDetails, "qs_rank").t = "int"

ShowsEnglishEvidence ==
    \/ Get(EnglishDetails, "exemption") = JTrue
    \/ Get(EnglishDetails, "test_overall") # Null

ClaimedReject ==
    \/ Get(DegreeDetails, "meets_requirement") = JFalse
    \/ (ShowsIntegerRank /\ Get(DegreeDetails, "qs_rank").v > 8000000)
    \/ ~ShowsEnglishEvidence

ClaimedAccept ==
    /\ ShowsIntegerRank
    /\ Get(DegreeDetails, "qs_rank").v <= 1000000
    /\ evals[1]["degree"][1].score.t = "float"
    /\ evals[1]["degree"][1].score.v >= 80000

\* C4: for every combination of the five stored results, gating decides
\* REJECT iff Degree.meets_requirement is false, or the integer rank is above
\* 800, or the English result shows no exemption and no test score; otherwise
\* ACCEPT iff the rank is at most 100 and the Degree score at least 8;
\* otherwise MIDDLE.
C4_GatingDecisionTable ==
    (Gated /\ \A name \in Dimensions : Len(evals[1][name]) = 1) =>
        gating[1][1].decision =
            IF ClaimedReject THEN "REJECT"
            ELSE IF ClaimedAccept THEN "ACCEPT"
            ELSE "MIDDLE"

\* C5: gating never accepts or rejects on missing information alone: with the
\* Degree result missing or its meets_requirement and rank null or absent,
\* and the English result missing or showing an exemption or a test score,
\* the decision is MIDDLE with no reasons, whatever the scores are.
C5_MissingInformationIsMiddle ==
    (/\ Gated
     /\ \/ Len(evals[1]["degree"]) = 0
        \/ /\ Get(DegreeDetails, "meets_requirement") = Null
           /\ Get(DegreeDetails, "qs_rank") = Null
     /\ \/ Len(evals[1]["english"]) = 0
        \/ ShowsEnglishEvidence)
    => (gating[1][1].decision = "MIDDLE" /\ gating[1][1].reasons = <<>>)

\* C5 witness: a Degree result with score 10 and neither verdict nor rank, an
\* exempt English result without score, the other scores null: gated MIDDLE
C5_Witness ==
    /\ Gated
    /\ evals[1]["degree"] = <<StoredRow(DegreeDict(Null, Null, JInt(10)))>>
    /\ evals[1]["english"] = <<StoredRow(EnglishDict(JTrue, Null, Null))>>
    /\ evals[1]["experience"] = <<StoredRow(ScoreDict(Null))>>
    /\ gating[1][1].decision = "MIDDLE"

\* C6: gating is an idempotent upsert: an applicant never has more than one
\* gating row, and once the row is written, executions over unchanged
\* evaluations leave its decision and reasons as the first execution wrote them.
C6_GatingIdempotentUpsert ==
    /\ [](\A a \in Applicants : Len(gating[a]) <= 1)
    /\ [][\A a \in Applicants :
            (Len(gating[a]) = 1 /\ evals'[a] = evals[a]) => gating'[a] = gating[a]]_vars

\* C6 witness: a second execution has gated every applicant again
C6_Witness ==
    /\ exec_no["w1"] = 2
    /\ pc["w1"] = "ranking"
    /\ \A a \in Applicants : Len(gating[a]) = 1
    /\ \E a \in Applicants : gating[a][1].decision = "REJECT"

\* the ranking rows and the applicants currently gated MIDDLE
MiddleSet == {a \in Applicants : Len(gating[a]) >= 1 /\ gating[a][1].decision = "MIDDLE"}

RankedSet == {a \in Applicants : Len(ranking[a]) >= 1}

RankOf(a) == ranking[a][1].final_rank

ScoreOf(a) == ranking[a][1].weighted_score.v

\* C7: whatever K and the verdicts are, two MIDDLE applicants whose weighted
\* scores differ by more than epsilon before the refinement have the same
\* relative order in final_rank after it.
C7_FarPairsKeepOrder ==
    \A p \in Workers :
        pc[p] = "complete" =>
            \A a, b \in RankedSet :
                ScoreOf(a) - ScoreOf(b) > PAIRWISE_EPS => RankOf(a) < RankOf(b)

\* C8: whenever the comparator names the lower-scored applicant of a compared
\* pair the winner, then at the end of that pass the winner's final_rank is
\* better than the loser's, for any number of MIDDLE applicants.
C8_WinnerRanksAboveLoser ==
    \A p \in Workers :
        (pc[p] \in {"pass", "complete"} /\ pass_idx[p] >= 1) =>
            \A sw \in swaps :
                (sw.exec = exec_no[p] /\ sw.pass = pass_idx[p] - 1) =>
                    RankOf(sw.winner) < RankOf(sw.loser)

\* the initial ranking of some execution has been committed
AfterInitialRanking ==
    \E p \in Workers :
        \/ pc[p] \in {"clear", "pass", "pair", "assign", "complete"}
        \/ (pc[p] = "idle" /\ outcome[p] \in {"ok", "compare"})

\* C9: a ranking row exists only for an applicant currently gated MIDDLE, and
\* after the initial ranking and after every pass the final_rank values are
\* exactly 1..N, without gap or duplicate, N the number of MIDDLE applicants.
C9_DenseRanksOverMiddleSet ==
    /\ RankedSet \subseteq MiddleSet
    /\ \A a \in Applicants : Len(ranking[a]) <= 1
    /\ AfterInitialRanking =>
          /\ RankedSet = MiddleSet
          /\ {RankOf(a) : a \in RankedSet} = 1..Cardinality(MiddleSet)

\* C9 witness: a pass that exchanged the scores of two MIDDLE applicants has
\* assigned their ranks
C9_Witness ==
    /\ pc["w1"] = "complete"
    /\ swaps # {}
    /\ Cardinality(MiddleSet) >= 2
    /\ \E a, b \in RankedSet : RankOf(a) = 1 /\ RankOf(b) = 2

\* C10: the stored comparisons of the run are those of the most recent
\* ranking run: rows of earlier executions are deleted before pass 0 and never
\* accumulate.
C10_ComparisonsReplacedOnRerun ==
    /\ \A i, j \in 1..Len(pairwise) : pairwise[i].created_at = pairwise[j].created_at
    /\ \A p \in Workers :
          pc[p] \in {"pass", "pair", "assign", "complete"} =>
              \A i \in 1..Len(pairwise) : pairwise[i].created_at = exec_no[p]

\* C10 witness: the second execution has stored a comparison after the first
\* one had stored one too
C10_Witness ==
    /\ exec_no["w1"] = 2
    /\ pc["w1"] = "complete"
    /\ Len(pairwise) >= 1
    /\ \E sw \in swaps : sw.exec = 1

\* ------------------------------------------------------------------------
\* Two executions of orchestrate_run for the same run, interleaved
\* ------------------------------------------------------------------------
\* lines 302-311: the worker reads the stored evaluations and finds agents to
\* run; the evaluators then run for up to two minutes before anything is saved
ReadExisting(p) ==
    /\ pc[p] = "evaluate"
    /\ UNCHANGED besidePipeline
    /\ needed_agents(evals[applicants[cur[p]]]) # {}
    /\ pending' = [pending EXCEPT ![p] = needed_agents(evals[applicants[cur[p]]])]
    /\ pc' = [pc EXCEPT ![p] = "agents"]
    /\ UNCHANGED <<storeVars, cur, scores, pass_idx, pair_i, exec_no, outcome,
                   queue, executions, applicants, K, swaps, first_run>>

\* evaluators that return storable results, with weighted totals 6.9 and 6.5
InterleavedScenarios ==
    {AllReturn, With(AllReturn, "english", Returned(EnglishTested(6)))}

\* lines 333-381: the evaluators have returned; a row is added for every
\* agent that was needed when the worker looked, and committed
SaveResults(p) ==
    /\ pc[p] = "agents"
    /\ UNCHANGED besidePipeline
    /\ \E sc \in InterleavedScenarios :
        LET a == applicants[cur[p]]
            results == run_concurrent_evaluation(sc)
        IN  evals' = [evals EXCEPT ![a] =
                        [name \in Dimensions |->
                            IF name \in pending[p]
                            THEN Append(evals[a][name], StoredRow(results[name]))
                            ELSE evals[a][name]]]
    /\ pending' = [pending EXCEPT ![p] = {}]
    /\ IF cur[p] < Len(applicants)
       THEN /\ cur' = [cur EXCEPT ![p] = cur[p] + 1]
            /\ pc' = [pc EXCEPT ![p] = "evaluate"]
       ELSE /\ cur' = [cur EXCEPT ![p] = 1]
            /\ pc' = [pc EXCEPT ![p] = "gating"]
    /\ UNCHANGED <<run_status, gating, ranking, pairwise, scores, pass_idx, pair_i,
                   exec_no, outcome, queue, executions, applicants, K, swaps,
                   first_run>>

StepInterleaved(p) ==
    \/ BeginRun(p)
    \/ SkipEvaluated(p)
    \/ ReadExisting(p)
    \/ SaveResults(p)
    \/ GateApplicant(p)
    \/ InitialRanking(p)
    \/ ClearPairwise(p)
    \/ BeginPass(p)
    \/ SkipPair(p)
    \/ ComparePair(p)
    \/ AssignRanks(p)
    \/ CompleteRun(p)

InitInterleaved == InitPipeline

\* start_run enqueues a task on every call, whatever the run status is; two
\* workers take the tasks
NextInterleaved ==
    \/ start_run
    \/ \E p \in Workers : StepInterleaved(p)

SpecInterleaved == InitInterleaved /\ [][NextInterleaved]_vars

\* both enqueued executions have ended
BothExecutionsEnded ==
    /\ executions = 2
    /\ queue = 0
    /\ \A p \in Workers : pc[p] = "idle"

\* C12: when two executions of orchestrate_run for the same run interleave,
\* both finish without error and the store ends with at most one evaluation
\* row per (applicant, dimension), exactly one gating row per applicant and at
\* most one ranking row per applicant.
C12_InterleavedExecutionsKeepOneRow ==
    BothExecutionsEnded =>
        /\ \A p \in Workers : outcome[p] \in {"none", "ok"}
        /\ \A a \in Applicants :
              /\ \A name \in Dimensions : Len(evals[a][name]) <= 1
              /\ Len(gating[a]) = 1
              /\ Len(ranking[a]) <= 1

\* the comparisons stored for the run, as (a, b, winner, pass) tuples
StoredVerdicts ==
    [i \in 1..Len(pairwise) |->
        <<pairwise[i].applicant_a_id, pairwise[i].applicant_b_id,
          pairwise[i].winner, pairwise[i].pass_index>>]

\* a second execution has completed after a completed first one, over the
\* same evaluations and with the same comparator verdicts
RerunCompleted ==
    /\ first_run.done
    /\ first_run.exec = 1
    /\ exec_no["w1"] = 2
    /\ pc["w1"] = "idle"
    /\ outcome["w1"] = "ok"
    /\ StoredVerdicts = first_run.verdicts

\* C11: ranking reruns are idempotent: after a rerun over unchanged
\* evaluations with the same comparator verdicts every ranking row
\* (weighted_score, final_rank and notes) is what it was after the first run.
C11_RankingRerunIdempotent ==
    RerunCompleted => ranking = first_run.ranking

\* ------------------------------------------------------------------------
\* One call of an evaluator or of the comparator (agents/evaluators.py)
\* ------------------------------------------------------------------------
Agents == Dimensions \cup {"compare"}

\* the keys each instruction string asks the reply to carry
ContractKeys(name) ==
    CASE name = "english" ->
            {"exemption", "test_type", "test_overall", "level", "score", "evidence"}
      [] name = "degree" ->
            {"country", "institution", "meets_requirement", "qs_rank", "score",
             "subject_fit", "missing_prerequisites", "evidence", "policy_source",
             "degrees"}
      [] name = "experience" -> {"score", "highlights", "evidence"}
      [] name = "ps_rl" -> {"score", "strengths", "weaknesses"}
      [] name = "academic" -> {"score", "papers", "evidence"}
      [] OTHER -> {"winner", "reason"}

\* the keys whose value is a list
ListKeys ==
    {"evidence", "missing_prerequisites", "degrees", "highlights", "strengths",
     "weaknesses", "papers"}

\* required_keys of degree_agent (line 232) and experience_agent (line 294);
\* the other agents require none
required_keys(name) ==
    IF name \in {"degree", "experience"} THEN ContractKeys(name) ELSE {}

\* parse_agent_json(ans): None, or the parsed object
NoParse == [parsed |-> FALSE, dict |-> EmptyDict]

Parsed(dict) == [parsed |-> TRUE, dict |-> dict]

\* a reply with every key of the contract: one item in each list, the given
\* value under `score` (or `winner`), null elsewhere
Complete(name, value) ==
    [k \in ContractKeys(name) |->
        IF k \in {"score", "winner"} THEN value
        ELSE IF k \in ListKeys THEN JItems(1)
        ELSE Null]

Without(dict, key) == [k \in DOMAIN dict \ {key} |-> dict[k]]

\* what the parse of one judgment-call answer can be
Replies(name) ==
    IF name = "compare"
    THEN {NoParse, Parsed(EmptyDict)} \cup
         {Parsed(Complete(name, w)) :
            w \in {JStr("A"), JStr("B"), JStr("tie"), JStr("neither"), Null,
                   JItems(1)}}
    ELSE {NoParse, Parsed(EmptyDict),
          Parsed(Without(Complete(name, JInt(7)), "score")),
          Parsed(Without(Complete(name, JInt(7)),
                         IF name = "ps_rl" THEN "strengths" ELSE "evidence"))} \cup
         {Parsed(Complete(name, sc)) :
            sc \in {JInt(7), JFloat(65000), Null, JStr("high")}}

\* isinstance(x, (int, float))
IsInstanceNumber(j) == j.t \in {"int", "float", "bool"}

\* x in {"A", "B", "tie"} raises TypeError when x cannot be hashed (a list)
Unhashable(j) == j.t = "list"

ValidWinner(j) == j.t = "str" /\ j.s \in {"A", "B", "tie"}

\* the retry condition after the first parse: lines 109 (english), 233-238
\* (degree), 295-300 (experience), 360 (ps_rl), 455 (academic), 501 (compare)
needs_retry(name, result) ==
    CASE name = "degree" ->
            \/ ~result.parsed
            \/ ~(required_keys(name) \subseteq DOMAIN result.dict)
            \/ Get(result.dict, "score") = Null
      [] name = "experience" ->
            \/ ~result.parsed
            \/ ~(required_keys(name) \subseteq DOMAIN result.dict)
            \/ ~IsInstanceNumber(Get(result.dict, "score"))
      [] name = "compare" ->
            \/ ~result.parsed
            \/ ~ValidWinner(Get(result.dict, "winner"))
      [] OTHER -> ~result.parsed

\* the dict returned when the evaluator gives up: lines 137, 255, 322, 376,
\* 471 and 515
Fallback(name) ==
    CASE name = "english" ->
            [exemption |-> JFalse, test_type |-> Null, test_overall |-> Null,
             level |-> Null, score |-> Null, evidence |-> JList]
      [] name = "compare" -> [winner |-> JStr("tie"), reason |-> JStr("undecided")]
      [] OTHER ->
            [k \in ContractKeys(name) |-> IF k \in ListKeys THEN JList ELSE Null]

\* what the call returns once the second answer is parsed
AfterRetry(name, result2) ==
    IF needs_retry(name, result2) THEN Fallback(name) ELSE result2.dict

\* _ask_agent raises (run_single_turn is not guarded), or the winner test
\* raises TypeError: the exception leaves the agent function
AgentRaises(error) ==
    /\ agentPc' = "raised"
    /\ agentResult' = [error |-> JStr(error)]

\* lines 107, 220, 282, 346, 441, 490: the first judgment call fails
FirstAskRaises ==
    /\ agentPc = "attempt1"
    /\ UNCHANGED besideAgent
    /\ asked' = asked + 1
    /\ AgentRaises("ask")
    /\ UNCHANGED <<agentName, replies>>

\* the first judgment call answers and the answer is parsed and tested
FirstAttempt ==
    /\ agentPc = "attempt1"
    /\ UNCHANGED besideAgent
    /\ asked' = asked + 1
    /\ IF agentName = "compare" /\ replies[1].parsed
          /\ Unhashable(Get(replies[1].dict, "winner"))
       THEN AgentRaises("TypeError")
       ELSE IF needs_retry(agentName, replies[1])
       THEN /\ agentPc' = "attempt2"
            /\ UNCHANGED agentResult
       ELSE /\ agentPc' = "done"
            /\ agentResult' = replies[1].dict
    /\ UNCHANGED <<agentName, replies>>

\* the second judgment call fails
RetryAskRaises ==
    /\ agentPc = "attempt2"
    /\ UNCHANGED besideAgent
    /\ asked' = asked + 1
    /\ AgentRaises("ask")
    /\ UNCHANGED <<agentName, replies>>

\* the second judgment call answers: its parse is returned if it passes the
\* agent's test, the fallback otherwise
Retry ==
    /\ agentPc = "attempt2"
    /\ UNCHANGED besideAgent
    /\ asked' = asked + 1
    /\ IF agentName = "compare" /\ replies[2].parsed
          /\ Unhashable(Get(replies[2].dict, "winner"))
       THEN AgentRaises("TypeError")
       ELSE /\ agentPc' = "done"
            /\ agentResult' = AfterRetry(agentName, replies[2])
    /\ UNCHANGED <<agentName, replies>>

InitAgent ==
    /\ agentName \in Agents
    /\ replies \in [1..2 -> Replies(agentName)]
    /\ asked = 0
    /\ agentPc = "attempt1"
    /\ agentResult = EmptyDict
    /\ EvalUnused
    /\ PipelineUnused
    /\ FnUnused

NextAgent ==
    \/ FirstAskRaises
    \/ FirstAttempt
    \/ RetryAskRaises
    \/ Retry

SpecAgent == InitAgent /\ [][NextAgent]_vars

\* the contract of a dimension evaluator's reply, as the instruction strings
\* state it: the answer parses, carries every key, and its score is a number
\* (the English score may also be null)
IsNumber(j) == j.t \in {"int", "float"}

ViolatesContract(name, reply) ==
    \/ ~reply.parsed
    \/ ~(ContractKeys(name) \subseteq DOMAIN reply.dict)
    \/ ~(\/ IsNumber(reply.dict["score"])
         \/ (name = "english" /\ reply.dict["score"] = Null))

\* the call of a dimension evaluator has returned
EvaluatorReturned == agentName \in Dimensions /\ agentPc = "done"

\* C13: for each of the five dimension evaluators, a first response that fails
\* to parse, or lacks required keys, or has an absent or non-numeric score,
\* triggers exactly one retry and is never returned as the result.
C13_ViolatingFirstReplyIsRetried ==
    (EvaluatorReturned /\ ViolatesContract(agentName, replies[1])) =>
        /\ asked = 2
        /\ replies[1].parsed => agentResult # replies[1].dict

\* every list of the result is present and empty
EvidenceEmpty(name, result) ==
    \A k \in ContractKeys(name) \cap ListKeys : k \in DOMAIN result /\ result[k] = JList

\* C14: a dimension evaluator call makes at most two judgment calls, the
\* second only after the first response violated the contract, and when both
\* responses violate the contract it returns a result with a null score and
\* empty evidence.
C14_TwoAttemptsThenNullResult ==
    agentName \in Dimensions =>
        /\ asked <= 2
        /\ asked = 2 => ViolatesContract(agentName, replies[1])
        /\ (/\ agentPc = "done"
            /\ ViolatesContract(agentName, replies[1])
            /\ ViolatesContract(agentName, replies[2]))
           => /\ "score" \in DOMAIN agentResult
              /\ agentResult["score"] = Null
              /\ EvidenceEmpty(agentName, agentResult)

\* the comparator's contract: the answer parses and names A, B or tie
ViolatesVerdict(reply) ==
    \/ ~reply.parsed
    \/ ~ValidWinner(Get(reply.dict, "winner"))

\* lines 465-468: the winner written to the PairwiseComparison row
PersistedWinner(verdict) ==
    IF Truthy(Get(verdict, "winner")) THEN Get(verdict, "winner") ELSE JStr("tie")

\* the call has ended without a judgment call having failed
CompareEnded ==
    /\ agentName = "compare"
    /\ \/ agentPc = "done"
       \/ (agentPc = "raised" /\ agentResult # [error |-> JStr("ask")])

\* C15: compare_agent makes at most two judgment calls, the second only when
\* the first response fails to parse or names no valid winner; the winner it
\* returns is A, B or tie, it is tie when both responses violate the
\* contract, and the persisted comparison carries the returned winner.
C15_ComparatorRetriesThenTie ==
    agentName = "compare" =>
        /\ asked <= 2
        /\ asked = 2 => ViolatesVerdict(replies[1])
        /\ agentPc = "done" =>
              /\ ValidWinner(Get(agentResult, "winner"))
              /\ PersistedWinner(agentResult) = agentResult["winner"]
        /\ (CompareEnded /\ ViolatesVerdict(replies[1]) /\ ViolatesVerdict(replies[2]))
           => (agentPc = "done" /\ agentResult["winner"] = JStr("tie"))

\* ------------------------------------------------------------------------
\* weighted_total alone (services/scoring.py)
\* ------------------------------------------------------------------------
\* the scores weighted_total is called with: None, a negative one, 0, 3.3332,
\* 5 to 10, and one above 10
ScoreInputs ==
    {Null, JInt(-2), JInt(0), JFloat(33332), JInt(5), JInt(6), JInt(7), JInt(8),
     JInt(9), JInt(10), JInt(12)}

InitScoring ==
    /\ fn_args \in [Dimensions -> ScoreInputs]
    /\ fn_ret = [done |-> FALSE, total |-> 0]
    /\ EvalUnused
    /\ PipelineUnused
    /\ AgentUnused

\* total = weighted_total(english=..., degree=..., ...)
CallWeightedTotal ==
    /\ ~fn_ret.done
    /\ fn_ret' = [done |-> TRUE, total |-> weighted_total(fn_args)]
    /\ UNCHANGED fn_args
    /\ UNCHANGED besideFn

NextScoring == CallWeightedTotal

SpecScoring == InitScoring /\ [][NextScoring]_vars

\* clamp(score, 0, 10) of a non-null score, 0 for a null one
ClampedOrZero(j) ==
    IF j = Null THEN 0
    ELSE IF j.v < 0 THEN 0
    ELSE IF j.v > 100000 THEN 100000
    ELSE j.v

AllScores(j) == [name \in Dimensions |-> j]

\* C16: weighted_total is the sum over the non-null dimensions of weight *
\* clamp(score, 0, 10) with the weights 0.10 / 0.50 / 0.15 / 0.15 / 0.10 for
\* english / degree / academic / experience / ps_rl, rounded to 4 decimals;
\* all-null gives 0.0, all-10 gives 10.0 and (8, 7, 6, 9, 5) gives 7.05.
C16_WeightedTotalFormula ==
    fn_ret.done =>
        /\ fn_ret.total =
              Round4(10 * ClampedOrZero(fn_args["english"])
                     + 50 * ClampedOrZero(fn_args["degree"])
                     + 15 * ClampedOrZero(fn_args["academic"])
                     + 15 * ClampedOrZero(fn_args["experience"])
                     + 10 * ClampedOrZero(fn_args["ps_rl"]))
        /\ fn_args = AllScores(Null) => fn_ret.total = 0
        /\ fn_args = AllScores(JInt(10)) => fn_ret.total = 100000
        /\ fn_args = [english |-> JInt(8), degree |-> JInt(7), academic |-> JInt(6),
                      experience |-> JInt(9), ps_rl |-> JInt(5)]
              => fn_ret.total = 70500

\* C16 witness: the call with (8, 7, 6, 9, 5) has returned 7.05
C16_Witness ==
    /\ fn_ret.done
    /\ fn_args = [english |-> JInt(8), degree |-> JInt(7), academic |-> JInt(6),
                  experience |-> JInt(9), ps_rl |-> JInt(5)]
    /\ fn_ret.total = 70500

\* v is a higher score than u (a null score cannot be raised)
Higher(v, u) == u # Null /\ v # Null /\ v.v > u.v

\* C17: weighted_total is monotonic and bounded: for any scores (null,
\* negative and above 10 included) raising one dimension's score with the
\* others fixed never lowers the total, and the total lies in [0, 10].
C17_WeightedTotalMonotonicBounded ==
    fn_ret.done =>
        /\ 0 <= fn_ret.total
        /\ fn_ret.total <= 100000
        /\ \A name \in Dimensions : \A v \in ScoreInputs :
              Higher(v, fn_args[name]) =>
                  weighted_total([fn_args EXCEPT ![name] = v]) >= fn_ret.total

\* C17 witness: a call with a score above 10, a negative one and a null one
\* has returned 1.0
C17_Witness ==
    /\ fn_ret.done
    /\ fn_args = [english |-> JInt(12), degree |-> JInt(-2), academic |-> Null,
                  experience |-> JInt(0), ps_rl |-> JInt(0)]
    /\ fn_ret.total = 10000

\* ------------------------------------------------------------------------
\* parse_agent_json (agents/json_utils.py)
\* ------------------------------------------------------------------------
\* A text is a sequence of characters. The characters of the model are
\* { } " : , \ (backslash), the digit 1, the letters k and x, space and
\* newline; a fence marker of three backquotes, written "fence", and the word
\* json count as one character each, since no operation of the function
\* splits them.
At(text, i) == IF i \in 1..Len(text) THEN text[i] ELSE "EOF"

IsSpace(c) == c \in {" ", "\n"}

\* str.strip()
RECURSIVE LStrip(_)
LStrip(text) ==
    IF text # <<>> /\ IsSpace(Head(text)) THEN LStrip(Tail(text)) ELSE text

RECURSIVE RStrip(_)
RStrip(text) ==
    IF text # <<>> /\ IsSpace(text[Len(text)])
    THEN RStrip(SubSeq(text, 1, Len(text) - 1))
    ELSE text

Strip(text) == RStrip(LStrip(text))

\* line 31: re.sub(r'^```(?:json)?\\s*', '', cleaned, flags=re.MULTILINE).
\* In the raw string \\ is a literal backslash and the star binds to the s:
\* the pattern is a fence marker at the start of a line, an optional json,
\* and a backslash (the texts of the model hold no letter s).
RECURSIVE RemoveOpeningFences(_, _)
RemoveOpeningFences(text, i) ==
    IF i > Len(text) THEN <<>>
    ELSE LET lineStart == i = 1 \/ text[i - 1] = "\n"
             j == IF At(text, i + 1) = "json" THEN i + 2 ELSE i + 1
         IN  IF lineStart /\ text[i] = "fence" /\ At(text, j) = "\\"
             THEN RemoveOpeningFences(text, j + 1)
             ELSE <<text[i]>> \o RemoveOpeningFences(text, i + 1)

\* line 32: re.sub(r'\\s*```$', '', cleaned, flags=re.MULTILINE): a backslash
\* and a fence marker at the end of a line
RECURSIVE RemoveClosingFences(_, _)
RemoveClosingFences(text, i) ==
    IF i > Len(text) THEN <<>>
    ELSE IF /\ text[i] = "\\"
            /\ At(text, i + 1) = "fence"
            /\ At(text, i + 2) \in {"\n", "EOF"}
         THEN RemoveClosingFences(text, i + 2)
         ELSE <<text[i]>> \o RemoveClosingFences(text, i + 1)

\* str.find('{'), from 1; 0 when there is none
Find(text, c) ==
    IF \E i \in 1..Len(text) : text[i] = c
    THEN CHOOSE i \in 1..Len(text) : text[i] = c /\ \A j \in 1..(i - 1) : text[j] # c
    ELSE 0

\* lines 43-53: the index of the brace that brings brace_count back to 0,
\* 0 when none does
RECURSIVE MatchingBrace(_, _, _)
MatchingBrace(text, i, brace_count) ==
    IF i > Len(text) THEN 0
    ELSE IF text[i] = "{" THEN MatchingBrace(text, i + 1, brace_count + 1)
    ELSE IF text[i] = "}"
         THEN IF brace_count = 1 THEN i
              ELSE MatchingBrace(text, i + 1, brace_count - 1)
    ELSE MatchingBrace(text, i + 1, brace_count)

\* json.loads: the JSON grammar over the characters of the model. Each
\* Parse operator takes the index of the first character of the construct
\* and gives the index after it, 0 when the text is not well-formed there.
RECURSIVE SkipSpace(_, _)
SkipSpace(text, i) ==
    IF IsSpace(At(text, i)) THEN SkipSpace(text, i + 1) ELSE i

RECURSIVE ParseChars(_, _)
ParseChars(text, i) ==
    CASE At(text, i) = "\"" -> i + 1
      [] At(text, i) \in {"EOF", "\n"} -> 0
      [] At(text, i) = "\\" ->
            IF At(text, i + 1) \in {"\"", "\\"} THEN ParseChars(text, i + 2) ELSE 0
      [] OTHER -> ParseChars(text, i + 1)

ParseString(text, i) == IF At(text, i) = "\"" THEN ParseChars(text, i + 1) ELSE 0

RECURSIVE ParseNumber(_, _)
ParseNumber(text, i) ==
    IF At(text, i + 1) = "1" THEN ParseNumber(text, i + 1) ELSE i + 1

RECURSIVE ParseValue(_, _)
RECURSIVE ParseMembers(_, _)

ParseObject(text, i) ==
    LET j == SkipSpace(text, i + 1)
    IN  IF At(text, j) = "}" THEN j + 1 ELSE ParseMembers(text, j)

ParseValue(text, i) ==
    CASE At(text, i) = "{" -> ParseObject(text, i)
      [] At(text, i) = "\"" -> ParseString(text, i)
      [] At(text, i) = "1" -> ParseNumber(text, i)
      [] OTHER -> 0

ParseMembers(text, i) ==
    LET afterKey == ParseString(text, i)
        colon == SkipSpace(text, afterKey)
        afterValue == ParseValue(text, SkipSpace(text, colon + 1))
        next == SkipSpace(text, afterValue)
    IN  IF afterKey = 0 \/ At(text, colon) # ":" \/ afterValue = 0 THEN 0
        ELSE IF At(text, next) = "}" THEN next + 1
        ELSE IF At(text, next) = "," THEN ParseMembers(text, SkipSpace(text, next + 1))
        ELSE 0

\* the parsed value, written without the space between its tokens
RECURSIVE Canonical(_, _, _)
Canonical(text, i, inString) ==
    IF i > Len(text) THEN <<>>
    ELSE IF inString /\ text[i] = "\\"
         THEN <<text[i], At(text, i + 1)>> \o Canonical(text, i + 2, TRUE)
    ELSE IF text[i] = "\"" THEN <<text[i]>> \o Canonical(text, i + 1, ~inString)
    ELSE IF ~inString /\ IsSpace(text[i]) THEN Canonical(text, i + 1, FALSE)
    ELSE <<text[i]>> \o Canonical(text, i + 1, inString)

\* the three ways the function body ends
ReturnsNone == [raised |-> FALSE, none |-> TRUE, value |-> <<>>]

ReturnsValue(v) == [raised |-> FALSE, none |-> FALSE, value |-> v]

Raises == [raised |-> TRUE, none |-> FALSE, value |-> <<>>]

\* line 62: json.loads(cleaned) returns the value or raises JSONDecodeError
\* (also on data after the value)
JsonLoads(text) ==
    LET first == SkipSpace(text, 1)
        after == ParseValue(text, first)
    IN  IF after # 0 /\ SkipSpace(text, after) = Len(text) + 1
        THEN ReturnsValue(Canonical(text, 1, FALSE))
        ELSE Raises

\* lines 28-32: strip, then the two substitutions
Cleaned(response) ==
    RemoveClosingFences(RemoveOpeningFences(Strip(response), 1), 1)

\* lines 28-62: the body of the try block
CleanAndLoad(response) ==
    LET cleaned == Cleaned(response)
        start_idx == Find(cleaned, "{")
        end_idx == MatchingBrace(cleaned, start_idx, 0)
    IN  IF At(cleaned, 1) = "{" THEN JsonLoads(cleaned)
        ELSE IF start_idx = 0 THEN ReturnsNone
        ELSE IF end_idx = 0 THEN ReturnsNone
        ELSE JsonLoads(SubSeq(cleaned, start_idx, end_idx))

\* a defective handler that lets the exception through
Reraise(result) == result

\* lines 64-69: except json.JSONDecodeError / except Exception: return None
ExceptReturnNone(result) == IF result.raised THEN ReturnsNone ELSE result

\* parse_agent_json(response): `response` is None or a text
parse_agent_json(response) ==
    IF response.isNone \/ response.text = <<>> THEN ReturnsNone
    ELSE ExceptReturnNone(CleanAndLoad(response.text))

\* what may stand before the object: nothing, blank, prose, a fence line
Prefixes ==
    { <<>>,
      <<" ">>,
      <<"x", "x", ":", " ">>,
      <<"fence", "\n">>,
      <<"fence", "json", "\n">>,
      <<"fence", "json", "\\", "\n">> }

\* well-formed objects: {"k":1}  {}  {"k": {"x":11}}  {"k":"x x","x":1}
\* {"k":"}"}  {"k":"\""}  {"k":"{"}
Objects ==
    { <<"{", "\"", "k", "\"", ":", "1", "}">>,
      <<"{", "}">>,
      <<"{", "\"", "k", "\"", ":", " ", "{", "\"", "x", "\"", ":", "1", "1", "}", "}">>,
      <<"{", "\"", "k", "\"", ":", "\"", "x", " ", "x", "\"", ",",
        "\"", "x", "\"", ":", "1", "}">>,
      <<"{", "\"", "k", "\"", ":", "\"", "}", "\"", "}">>,
      <<"{", "\"", "k", "\"", ":", "\"", "\\", "\"", "\"", "}">>,
      <<"{", "\"", "k", "\"", ":", "\"", "{", "\"", "}">> }

\* what may stand after the object: nothing, blank, a closing fence, prose,
\* a second object
Suffixes ==
    { <<>>,
      <<"\n">>,
      <<"\n", "fence">>,
      <<"\\", "fence">>,
      <<"\n", "fence", "\\">>,
      <<" ", "x", "x">>,
      <<" ", "{", "\"", "x", "\"", ":", "1", "}">> }

\* texts that hold no well-formed object: blank, prose without a brace, an
\* object that is never closed, and objects json.loads rejects
Malformed ==
    { <<" ", "\n">>,
      <<"x", "x", " ", "x">>,
      <<"x", "}">>,
      <<"{", "\"", "k", "\"", ":", "1">>,
      <<"x", " ", "{", "\"", "k", "\"", ":", "1">>,
      <<"x", " ", "{", "\"", "k", "\"", ":", "{", "}">>,
      <<"x", " ", "{", "\"", "k", "\"", ":", "\"", "}", "\"">>,
      <<"{", "\"", "k", "\"", ":", "\\", "fence", "\n", "1", "}">>,
      <<"{", "\"", "k", "\"", ":", "x", "}">>,
      <<"x", " ", "{", "\"", "k", "\"", ":", "x", "}">>,
      <<"{", "\"", "k", "\"", " ", "1", "}">>,
      <<"{", "\"", "k", "\"", ":", "1", ",", "}">>,
      <<"{", "k", ":", "1", "}">>,
      <<"{", "\"", "k", "\"", ":", "\"", "x", "}">>,
      <<"{", "\"", "k", "\"", ":", "\"", "\n", "\"", "}">> }

Response(isNone, prefix, object, suffix) ==
    [isNone |-> isNone, text |-> prefix \o object \o suffix,
     prefix |-> prefix, object |-> object, suffix |-> suffix]

NotCalled == [done |-> FALSE, raised |-> FALSE, none |-> FALSE, value |-> <<>>]

InitParse ==
    /\ fn_args \in
          {Response(TRUE, <<>>, <<>>, <<>>), Response(FALSE, <<>>, <<>>, <<>>)}
          \cup {Response(FALSE, m, <<>>, <<>>) : m \in Malformed}
          \cup {Response(FALSE, pre, obj, suf) :
                    pre \in Prefixes, obj \in Objects, suf \in Suffixes}
    /\ fn_ret = NotCalled
    /\ EvalUnused /\ PipelineUnused /\ AgentUnused

CallParseAgentJson ==
    /\ ~fn_ret.done
    /\ LET result == parse_agent_json(fn_args)
       IN  fn_ret' = [done |-> TRUE, raised |-> result.raised,
                      none |-> result.none, value |-> result.value]
    /\ UNCHANGED fn_args
    /\ UNCHANGED besideFn

NextParse == CallParseAgentJson

SpecParse == InitParse /\ [][NextParse]_vars

Chars(text) == {text[i] : i \in 1..Len(text)}

Blank(text) == \A c \in Chars(text) : IsSpace(c)

\* the response is leading prose or a fence, one well-formed object and
\* trailing text, with no brace outside the object or inside its strings
ObjectInText ==
    /\ fn_args.object # <<>>
    /\ MatchingBrace(fn_args.object, 1, 0) = Len(fn_args.object)
    /\ Chars(fn_args.prefix) \cap {"{", "}"} = {}
    /\ Chars(fn_args.suffix) \cap {"{", "}"} = {}

\* C18: for a response made of optional leading prose or a code fence, one
\* well-formed JSON object and optional trailing text, parse_agent_json
\* returns that object, whether or not the response starts with "{".
C18_ObjectExtractedFromText ==
    (fn_ret.done /\ ObjectInText) =>
        /\ ~fn_ret.raised
        /\ ~fn_ret.none
        /\ fn_ret.value = Canonical(fn_args.object, 1, FALSE)

\* the index of the brace that closes the object opened at i, braces inside
\* string literals not counted; 0 when the object is never closed
RECURSIVE ClosingBrace(_, _, _, _)
ClosingBrace(text, i, depth, inString) ==
    IF i > Len(text) THEN 0
    ELSE IF inString
         THEN IF text[i] = "\\" THEN ClosingBrace(text, i + 2, depth, TRUE)
              ELSE ClosingBrace(text, i + 1, depth, text[i] # "\"")
    ELSE IF text[i] = "\"" THEN ClosingBrace(text, i + 1, depth, TRUE)
    ELSE IF text[i] = "{" THEN ClosingBrace(text, i + 1, depth + 1, FALSE)
    ELSE IF text[i] = "}"
         THEN IF depth = 1 THEN i ELSE ClosingBrace(text, i + 1, depth - 1, FALSE)
    ELSE ClosingBrace(text, i + 1, depth, FALSE)

NoBrace(text) == "{" \notin Chars(text)

\* the object that starts at the first "{" is never closed
Unbalanced(text) ==
    /\ ~NoBrace(text)
    /\ ClosingBrace(text, Find(text, "{"), 0, FALSE) = 0

\* what starts at the first "{" is not a JSON value
InvalidJson(text) ==
    /\ ~NoBrace(text)
    /\ ParseValue(text, Find(text, "{")) = 0

\* the text begins with a well-formed object and goes on after it
TextAfterObject(text) ==
    LET after == ParseValue(text, 1)
    IN  /\ At(text, 1) = "{"
        /\ after # 0
        /\ SkipSpace(text, after) <= Len(text)

\* the inputs for which None is the stated answer
NoneExpected(isNone, text) ==
    \/ isNone
    \/ text = <<>>
    \/ NoBrace(text)
    \/ Unbalanced(text)
    \/ InvalidJson(text)
    \/ TextAfterObject(Strip(text))

Normalized(name) ==
    CASE name = "China" -> "china"
      [] name = "CN" -> "cn"
      [] name = "India" -> "india"
      [] name = "IN" -> "in"
      [] name = "Tsinghua University" -> "tsinghua university"
      [] name = " THU " -> "thu"
      [] name = "THU" -> "thu"
      [] name = "Tsinghua Universty" -> "tsinghua universty"
      [] name = "HKU" -> "hku"
      [] name = "University of Hong Kong" -> "university of hong kong"
      [] name = "Fudan University" -> "fudan university"
      [] name = "Unknown College" -> "unknown college"
      [] name = "IIT Bombay" -> "iit bombay"
      [] name = "IITB" -> "iitb"
      [] name = "IIT Bombey" -> "iit bombey"
      [] name = "University of Delhi" -> "university of delhi"
      [] name = "Computer Science and Technology" -> "computer science and technology"
      [] name = "Software Engineering (Honours)" -> "software engineering (honours)"
      [] name = "Mathematics" -> "mathematics"
      [] OTHER -> name

\* SequenceMatcher(None, a, b).ratio() on normalized names: 1 for equal
\* names, the computed ratio for the misspelt names, and 0 for every pair
\* of the model whose ratio is below 0.8
Ratio(a, b) ==
    CASE a = b -> 10000
      [] a = "tsinghua universty" /\ b = "tsinghua university" -> 9730
      [] a = "iit bombey" /\ b = "iit bombay" -> 9000
      [] OTHER -> 0

\* china_ucl_universities.json as loaded by _load_universities: one
\* double-star university with an alias, one plain, one that redirects
Universities ==
    << [canonical |-> "Tsinghua University", aliases |-> <<"THU">>, flag |-> "double_star"],
       [canonical |-> "Fudan University", aliases |-> <<>>, flag |-> "None"],
       [canonical |-> "University of Hong Kong", aliases |-> <<"HKU">>, flag |-> "star_redirect"] >>

\* _build_institution_lookup: normalized canonical names and aliases, in
\* insertion order, each with its university
RECURSIVE LookupEntries(_)
LookupEntries(i) ==
    IF i > Len(Universities) THEN <<>>
    ELSE LET uni == Universities[i]
         IN  <<[key |-> Normalized(uni.canonical), uni |-> uni]>>
             \o [a \in 1..Len(uni.aliases) |->
                    [key |-> Normalized(uni.aliases[a]), uni |-> uni]]
             \o LookupEntries(i + 1)

institution_lookup == LookupEntries(1)

NoUniversity == [canonical |-> "", aliases |-> <<>>, flag |-> "unresolved"]

\* the fuzzy loop of _normalize_institution_name: the first entry with the
\* highest ratio, when that ratio is at least 0.8
RECURSIVE BestMatch(_, _, _, _)
BestMatch(name_lower, i, best_match, best_score) ==
    IF i > Len(institution_lookup) THEN best_match
    ELSE LET score == Ratio(name_lower, institution_lookup[i].key)
         IN  IF score > best_score /\ score >= 8000
             THEN BestMatch(name_lower, i + 1, institution_lookup[i].uni, score)
             ELSE BestMatch(name_lower, i + 1, best_match, best_score)

\* ChinaEligibilityEvaluator._normalize_institution_name
ChinaNormalizeInstitution(raw_name) ==
    IF raw_name = "" THEN NoUniversity
    ELSE LET name_lower == Normalized(raw_name)
         IN  IF \E i \in 1..Len(institution_lookup) : institution_lookup[i].key = name_lower
             THEN institution_lookup[CHOOSE i \in 1..Len(institution_lookup) :
                                        institution_lookup[i].key = name_lower].uni
             ELSE BestMatch(name_lower, 1, NoUniversity, 0)

\* china_program_rules.yaml as loaded by _load_rules
ChinaRules ==
    [cs_tech_majors |-> {"computer science and technology"},
     thresholds |->
        [in_ucl_list_default |-> [first |-> 870000, upper |-> 820000, lower |-> 770000],
         in_ucl_list_double_star_cs |-> [first |-> 880000, upper |-> 830000, lower |-> 780000],
         in_ucl_list_double_star_non_cs |-> [first |-> 850000, upper |-> 800000, lower |-> 750000],
         outside_ucl_list |-> [first |-> 900000, upper |-> 850000, lower |-> 800000]]]

\* the majors of the model that hold one of the keywords of line 106
HoldsCsKeyword(major_lower) == major_lower = "software engineering (honours)"
                                 \/ major_lower = "computer science and technology"

\* _is_cs_tech_major
is_cs_tech_major(major) ==
    IF major = "" THEN FALSE
    ELSE \/ Normalized(major) \in ChinaRules.cs_tech_majors
         \/ HoldsCsKeyword(Normalized(major))

\* a defective choice that gives every double-star university the CS category
determine_threshold_category_AlwaysCs(university_info, major) ==
    IF university_info.flag = "star_redirect" THEN "star_redirect"
    ELSE IF university_info.flag = "double_star" THEN "in_ucl_list_double_star_cs"
    ELSE "in_ucl_list_default"

\* _determine_threshold_category
determine_threshold_category(university_info, major) ==
    IF university_info.flag = "star_redirect" THEN "star_redirect"
    ELSE IF university_info.flag = "double_star"
         THEN IF is_cs_tech_major(major) THEN "in_ucl_list_double_star_cs"
              ELSE "in_ucl_list_double_star_non_cs"
    ELSE "in_ucl_list_default"

\* the key of a target band in a threshold table: "first", "2:1", "2:2"
BandKey(target_band) ==
    CASE target_band = "first" -> "first"
      [] target_band = "2:1" -> "upper"
      [] target_band = "2:2" -> "lower"
      [] OTHER -> "absent"

\* _get_threshold: the configured threshold, 0 standing for None
ChinaGetThreshold(category, target_band) ==
    IF category = "star_redirect" \/ BandKey(target_band) = "absent" THEN 0
    ELSE ChinaRules.thresholds[category][BandKey(target_band)]

ChinaCountries == {"china", "cn", "zhongguo"}

\* a defective gate that refuses only the degrees shorter than four years
ChinaDegreeYearsAtLeast4(degree_years) == degree_years < 4

\* the gate on the length of the degree, line 166
ChinaDegreeYearsGate(degree_years) == degree_years # 4

\* ChinaEligibilityEvaluator.evaluate
evaluate_china(credential) ==
    IF Normalized(credential.country) \notin ChinaCountries
    THEN [eligible |-> "False", reason |-> "not_china", confidence |-> 10000]
    ELSE IF ChinaDegreeYearsGate(credential.degree_years)
    THEN [eligible |-> "False", reason |-> "not_4_year_bachelor", confidence |-> 10000]
    ELSE IF ~credential.moe_recognized
    THEN [eligible |-> "False", reason |-> "not_moe_recognized", confidence |-> 10000]
    ELSE
    LET university_info == ChinaNormalizeInstitution(credential.institution_raw)
        resolved == university_info # NoUniversity
        category == IF resolved
                    THEN determine_threshold_category(university_info, credential.major_raw)
                    ELSE "outside_ucl_list"
        institution_canonical == IF resolved THEN university_info.canonical
                                 ELSE credential.institution_raw
        confidence == IF resolved THEN 9000 ELSE 5000
        threshold == ChinaGetThreshold(category, credential.target_band)
        meets_requirement == credential.mark_value >= threshold
    IN  IF resolved /\ university_info.flag = "star_redirect"
        THEN [eligible |-> "None", reason |-> "redirect_to_hong_kong_rules",
              institution_canonical |-> university_info.canonical,
              confidence |-> 10000]
        ELSE IF threshold = 0
        THEN [eligible |-> "False", reason |-> "no_threshold_found",
              category |-> category, confidence |-> 3000]
        ELSE [eligible |-> IF meets_requirement THEN "True" ELSE "False",
              reason |-> IF meets_requirement THEN "meets_threshold" ELSE "below_threshold",
              threshold_used |-> threshold,
              category |-> category,
              institution_canonical |-> institution_canonical,
              institution_raw |-> credential.institution_raw,
              major |-> credential.major_raw,
              mark_value |-> credential.mark_value,
              target_band |-> credential.target_band,
              confidence |-> confidence]

\* INDIA_THRESHOLDS, lines 17-28; the key "upper" is "2:1", "lower" is "2:2",
\* and the scales are keyed by their denominator, 0 for "percent"
ScaleRow(s10, s8, s7, s6, s4, percent) ==
    (10 :> s10) @@ (8 :> s8) @@ (7 :> s7) @@ (6 :> s6) @@ (4 :> s4) @@ (0 :> percent)

INDIA_THRESHOLDS ==
    [category1 |->
        [first |-> ScaleRow(80000, 65000, 60000, 45000, 33000, 650000),
         upper |-> ScaleRow(75000, 60000, 55000, 40000, 30000, 600000),
         lower |-> ScaleRow(65000, 55000, 50000, 35000, 27000, 550000)],
     category2 |->
        [first |-> ScaleRow(85000, 70000, 65000, 50000, 36000, 700000),
         upper |-> ScaleRow(80000, 65000, 60000, 45000, 33000, 650000),
         lower |-> ScaleRow(70000, 60000, 55000, 40000, 30000, 600000)]]

\* india_institutions.json as loaded by _load_institutions_data
institutions_data ==
    [category1_sets |-> [ini |-> <<"IIT Bombay">>, nirf_top_100 |-> <<"University of Delhi">>],
     aliases |-> [alias \in {"IITB"} |-> "IIT Bombay"]]

\* _build_category1_sets, all sets together
Category1Names ==
    {Normalized(institutions_data.category1_sets[k][i]) :
        k \in DOMAIN institutions_data.category1_sets,
        i \in 1..1}

\* the original spelling of a normalized Category 1 name
Original(name_lower) ==
    CHOOSE original \in {institutions_data.category1_sets[k][i] :
                            k \in DOMAIN institutions_data.category1_sets, i \in 1..1} :
        Normalized(original) = name_lower

\* IndiaEligibilityEvaluator._normalize_institution_name: the name and the
\* confidence
IndiaNormalizeInstitution(raw_name) ==
    LET name_lower == Normalized(raw_name)
        aliases == institutions_data.aliases
        close == {known \in Category1Names : Ratio(name_lower, known) >= 8000}
        best_match == CHOOSE known \in close :
                          \A other \in close : Ratio(name_lower, known) >= Ratio(name_lower, other)
    IN  IF raw_name = "" THEN [name |-> raw_name, confidence |-> 0]
        ELSE IF \E alias \in DOMAIN aliases : name_lower = Normalized(alias)
        THEN [name |-> aliases[CHOOSE alias \in DOMAIN aliases : name_lower = Normalized(alias)],
              confidence |-> 9500]
        ELSE IF name_lower \in Category1Names
        THEN [name |-> Original(name_lower), confidence |-> 9000]
        ELSE IF close # {}
        THEN [name |-> Original(best_match),
              confidence |-> (Ratio(name_lower, best_match) * 8) \div 10]
        ELSE [name |-> raw_name, confidence |-> 3000]

\* classify_category
classify_category(institution_canonical) ==
    IF Normalized(institution_canonical) \in Category1Names THEN "category1" ELSE "category2"

\* a defective lookup that always takes the percent entry
IndiaThresholdUsed_PercentOnly(denom, band, category) ==
    INDIA_THRESHOLDS[category][BandKey(band)][0]

\* meets_threshold: the threshold the mark is compared with. A denominator
\* of 0 stands for None (a percentage).
IndiaThresholdUsed(denom, band, category) ==
    INDIA_THRESHOLDS[category][BandKey(band)][IF denom \in {10, 8, 7, 6, 4} THEN denom ELSE 0]

\* the marks of the model for which (value / denom) * 100.0, computed in
\* binary floating point, falls below the exact quotient: 5.85 on a 9-point
\* scale gives 64.99999999999999
PercentRoundsBelow(value, denom) == value = 58500 /\ denom = 9

\* to_percent(value, denom) >= percent_threshold
PercentAtLeast(value, denom, percent_threshold) ==
    IF denom = 0 THEN value >= percent_threshold
    ELSE \/ value * 100 > percent_threshold * denom
         \/ /\ value * 100 = percent_threshold * denom
            /\ ~PercentRoundsBelow(value, denom)

\* meets_threshold: value >= threshold on a scale of the table, and
\* to_percent(value, denom) >= the percent threshold otherwise
IndiaMeets(value, denom, band, category) ==
    LET threshold == IndiaThresholdUsed(denom, band, category)
    IN  IF denom \in {10, 8, 7, 6, 4} THEN value >= threshold
        ELSE PercentAtLeast(value, denom, threshold)

IndiaCountries == {"india", "in", "bharat"}

\* the gate on the length of the degree, line 173
IndiaDegreeYearsGate(degree_years) == ~(3 <= degree_years /\ degree_years <= 5)

Max2(a, b) == IF a >= b THEN a ELSE b

\* IndiaEligibilityEvaluator.evaluate; a target band that is no key of the
\* table raises KeyError in meets_threshold
evaluate_india(credential) ==
    IF Normalized(credential.country) \notin IndiaCountries
    THEN [eligible |-> "False", reason |-> "not_india", confidence |-> 10000]
    ELSE IF IndiaDegreeYearsGate(credential.degree_years)
    THEN [eligible |-> "False", reason |-> "degree_years_not_3to5", confidence |-> 10000]
    ELSE IF ~credential.awarding_body_recognised
    THEN [eligible |-> "False", reason |-> "awarding_body_not_recognised", confidence |-> 10000]
    ELSE
    LET normalized == IndiaNormalizeInstitution(credential.institution_raw)
        institution_canonical == normalized.name
        name_confidence == normalized.confidence
        category == classify_category(institution_canonical)
        denom == credential.mark_scale_denominator
        meets_req == IndiaMeets(credential.mark_value, denom, credential.target_band, category)
        overall_confidence ==
            IF category = "category1" /\ name_confidence > 8000 THEN name_confidence
            ELSE IF category = "category1" THEN (name_confidence * 9) \div 10
            ELSE Max2(6000, name_confidence)
    IN  IF BandKey(credential.target_band) = "absent" THEN [raised |-> "KeyError"]
        ELSE [eligible |-> IF meets_req THEN "True" ELSE "False",
              reason |-> IF meets_req THEN "meets_threshold" ELSE "below_threshold",
              threshold_used |->
                  IndiaThresholdUsed(denom, credential.target_band, category),
              category |-> category,
              institution_canonical |-> institution_canonical,
              institution_raw |-> credential.institution_raw,
              mark_value |-> credential.mark_value,
              mark_scale |-> IF denom = 0 THEN "percent" ELSE denom,
              target_band |-> credential.target_band,
              confidence |-> overall_confidence,
              thresholds_reference |->
                  INDIA_THRESHOLDS[category][BandKey(credential.target_band)]]

\* the credentials the evaluators are called with
ChinaCredentials ==
    [country : {"China", "CN", "India"},
     degree_years : {0, 3, 4, 5},
     moe_recognized : BOOLEAN,
     institution_raw : {"", "Tsinghua University", " THU ", "Tsinghua Universty", "HKU",
                        "Fudan University", "Unknown College"},
     major_raw : {"", "Computer Science and Technology", "Software Engineering (Honours)",
                  "Mathematics"},
     mark_value : {0, 790000, 830000, 860000, 1000000},
     target_band : {"first", "2:1", "2:2", "third"}]

IndiaCredentials ==
    [country : {"India", "IN", "China"},
     degree_years : {2, 3, 4, 5, 6},
     awarding_body_recognised : BOOLEAN,
     institution_raw : {"", "IIT Bombay", "IITB", "IIT Bombey", "Unknown College"},
     mark_value : {0, 32500, 33000, 58500, 76000, 85000, 680000},
     mark_scale_denominator : {0, 10, 9, 5, 4},
     target_band : {"first", "2:1", "2:2", "third"}]

InitEligibility ==
    /\ fn_args \in [evaluator : {"china"}, credential : ChinaCredentials]
                     \cup [evaluator : {"india"}, credential : IndiaCredentials]
    /\ fn_ret = [done |-> FALSE]
    /\ EvalUnused /\ PipelineUnused /\ AgentUnused

CallEvaluateChina ==
    /\ ~fn_ret.done
    /\ fn_args.evaluator = "china"
    /\ fn_ret' = [done |-> TRUE, verdict |-> evaluate_china(fn_args.credential)]
    /\ UNCHANGED fn_args
    /\ UNCHANGED besideFn

CallEvaluateIndia ==
    /\ ~fn_ret.done
    /\ fn_args.evaluator = "india"
    /\ fn_ret' = [done |-> TRUE, verdict |-> evaluate_india(fn_args.credential)]
    /\ UNCHANGED fn_args
    /\ UNCHANGED besideFn

NextEligibility == CallEvaluateChina \/ CallEvaluateIndia

SpecEligibility == InitEligibility /\ [][NextEligibility]_vars

\* the verdict is a refusal for the given reason
Refused(verdict, reason) ==
    /\ "raised" \notin DOMAIN verdict
    /\ verdict.eligible = "False"
    /\ verdict.reason = reason

\* C20: evaluate_china answers eligible=false, reason not_4_year_bachelor for
\* every China credential whose degree_years is not 4, and evaluate_india
\* answers eligible=false, reason degree_years_not_3to5 for every India
\* credential whose degree_years is outside 3..5, whatever the institution,
\* major, mark and recognition flag.
C20_DegreeYearsGateFailsClosed ==
    fn_ret.done =>
        LET credential == fn_args.credential
        IN  /\ ( /\ fn_args.evaluator = "china"
                 /\ Normalized(credential.country) \in ChinaCountries
                 /\ credential.degree_years # 4 )
               => Refused(fn_ret.verdict, "not_4_year_bachelor")
            /\ ( /\ fn_args.evaluator = "india"
                 /\ Normalized(credential.country) \in IndiaCountries
                 /\ credential.degree_years \notin 3..5 )
               => Refused(fn_ret.verdict, "degree_years_not_3to5")

\* a five-year degree at a listed university with a full mark and the
\* recognition flag set has been refused
C20_Witness ==
    /\ fn_ret.done
    /\ fn_args.evaluator = "china"
    /\ fn_args.credential.country = "China"
    /\ fn_args.credential.degree_years = 5
    /\ fn_args.credential.moe_recognized
    /\ fn_args.credential.institution_raw = "Tsinghua University"
    /\ fn_args.credential.mark_value = 1000000
    /\ Refused(fn_ret.verdict, "not_4_year_bachelor")

\* the China credential of the call passed the three gates
ChinaGatesPassed ==
    /\ fn_ret.done
    /\ fn_args.evaluator = "china"
    /\ Normalized(fn_args.credential.country) \in ChinaCountries
    /\ fn_args.credential.degree_years = 4
    /\ fn_args.credential.moe_recognized

\* the category the claim names for a credential, from the flag of the
\* resolved institution and the major
ClaimedCategory(credential) ==
    LET university_info == ChinaNormalizeInstitution(credential.institution_raw)
    IN  IF university_info = NoUniversity THEN "outside_ucl_list"
        ELSE IF university_info.flag # "double_star" THEN "in_ucl_list_default"
        ELSE IF is_cs_tech_major(credential.major_raw) THEN "in_ucl_list_double_star_cs"
        ELSE "in_ucl_list_double_star_non_cs"

\* C21: for a China credential that passed the three gates, a resolved
\* institution with the star-redirect flag gives eligible=None with reason
\* redirect_to_hong_kong_rules; otherwise the category is the one chosen by
\* the double-star flag, the CS major match and whether the institution
\* resolved, and, the threshold of that category and target class being
\* configured, eligible is True exactly when the mark reaches it.
C21_ChinaCategoryAndThreshold ==
    ChinaGatesPassed =>
        LET credential == fn_args.credential
            verdict == fn_ret.verdict
            category == ClaimedCategory(credential)
            band == BandKey(credential.target_band)
        IN  IF ChinaNormalizeInstitution(credential.institution_raw).flag = "star_redirect"
            THEN verdict.eligible = "None" /\ verdict.reason = "redirect_to_hong_kong_rules"
            ELSE /\ verdict.category = category
                 /\ band # "absent" =>
                      /\ verdict.threshold_used = ChinaRules.thresholds[category][band]
                      /\ verdict.eligible = "True"
                           <=> credential.mark_value >= ChinaRules.thresholds[category][band]
                      /\ verdict.eligible \in {"True", "False"}

\* Tsinghua University, a CS major, mark 86 and target 2:1 have been judged
\* in category in_ucl_list_double_star_cs and found eligible
C21_Witness ==
    /\ ChinaGatesPassed
    /\ fn_args.credential.institution_raw = "Tsinghua University"
    /\ fn_args.credential.major_raw = "Computer Science and Technology"
    /\ fn_args.credential.mark_value = 860000
    /\ fn_args.credential.target_band = "2:1"
    /\ fn_ret.verdict.category = "in_ucl_list_double_star_cs"
    /\ fn_ret.verdict.eligible = "True"

\* the India credential of the call passed the three gates and names a
\* target class of the table
IndiaGatesPassed ==
    /\ fn_ret.done
    /\ fn_args.evaluator = "india"
    /\ Normalized(fn_args.credential.country) \in IndiaCountries
    /\ fn_args.credential.degree_years \in 3..5
    /\ fn_args.credential.awarding_body_recognised
    /\ fn_args.credential.target_band \in {"first", "2:1", "2:2"}

InstitutionResolved ==
    /\ fn_ret.done
    /\ "institution_canonical" \in DOMAIN fn_ret.verdict
    /\ fn_ret.verdict.reason # "redirect_to_hong_kong_rules"

\* the verdict of the same evaluator for the same credential under
\* another institution name
VerdictFor(institution) ==
    LET credential == [fn_args.credential EXCEPT !.institution_raw = institution]
    IN  IF fn_args.evaluator = "china" THEN evaluate_china(credential)
        ELSE evaluate_india(credential)

\* the known names a raw name is matched against
KnownNames ==
    IF fn_args.evaluator = "china"
    THEN {institution_lookup[i].key : i \in 1..Len(institution_lookup)}
    ELSE Category1Names \cup {Normalized(alias) : alias \in DOMAIN institutions_data.aliases}

\* the raw name was matched by similarity only
FuzzyMatched ==
    LET name_lower == Normalized(fn_args.credential.institution_raw)
    IN  /\ InstitutionResolved
        /\ fn_args.credential.institution_raw # ""
        /\ name_lower \notin KnownNames
        /\ \E known \in KnownNames : Ratio(name_lower, known) >= 8000

\* the configured names of the evaluator of the call: canonical names and
\* aliases
ConfiguredNames ==
    IF fn_args.evaluator = "china"
    THEN UNION {{Universities[i].canonical}
                    \cup {Universities[i].aliases[a] : a \in 1..Len(Universities[i].aliases)} :
                i \in 1..Len(Universities)}
    ELSE {institutions_data.category1_sets[k][1] : k \in DOMAIN institutions_data.category1_sets}
         \cup DOMAIN institutions_data.aliases

\* C23: resolving the canonical name of a verdict again gives the same
\* canonical name, and the confidence of a fuzzy match is lower than the
\* confidence of every exact match, by canonical name or alias, in both
\* evaluators.
C23_ResolutionIdempotentConfidenceRanked ==
    InstitutionResolved =>
        /\ VerdictFor(fn_ret.verdict.institution_canonical).institution_canonical
              = fn_ret.verdict.institution_canonical
        /\ FuzzyMatched =>
              \A exact \in ConfiguredNames :
                  fn_ret.verdict.confidence < VerdictFor(exact).confidence

\* ------------------------------------------------------------------------
\* EnglishScorePlugin (agents/plugins/english_score.py)
\* ------------------------------------------------------------------------
\* Bands are in ten-thousandths (7.5 is 75000); a score is the integer the
\* method returns.

\* the methods the class defines
EnglishScorePluginMethods == {"score_ielts_level2", "meets_thresholds"}

\* score_ielts_level2(overall), lines 17-30
score_ielts_level2(overall) ==
    IF overall >= 80000 THEN 10
    ELSE IF overall >= 75000 THEN 7
    ELSE IF overall >= 70000 THEN 5
    ELSE IF overall >= 65000 THEN 0
    ELSE 0

\* a call of a method of the plugin: attribute lookup on the instance
\* raises AttributeError for a name the class does not define
PluginCall(method, argument) ==
    IF method \notin EnglishScorePluginMethods
    THEN [raised |-> "AttributeError", value |-> 0]
    ELSE [raised |-> "none", value |-> score_ielts_level2(argument)]

\* overall bands from 0 to 9 in steps of 0.125, and the bands next to the
\* breakpoints
Bands == {k * 1250 : k \in 0..72} \cup {69990, 70010, 74990, 75010, 79990, 80010}

ExemptionReasons == {"British nationality", "UK degree", "Canadian university", "US education", ""}

InitRubric ==
    /\ fn_args \in [method : {"score_ielts_level2"}, argument : Bands]
                     \cup [method : {"score_exemption"}, argument : ExemptionReasons]
    /\ fn_ret = [done |-> FALSE]
    /\ EvalUnused /\ PipelineUnused /\ AgentUnused

CallScoreIeltsLevel2 ==
    /\ ~fn_ret.done
    /\ fn_args.method = "score_ielts_level2"
    /\ fn_ret' = [done |-> TRUE, result |-> PluginCall("score_ielts_level2", fn_args.argument)]
    /\ UNCHANGED fn_args
    /\ UNCHANGED besideFn

CallScoreExemption ==
    /\ ~fn_ret.done
    /\ fn_args.method = "score_exemption"
    /\ fn_ret' = [done |-> TRUE, result |-> PluginCall("score_exemption", fn_args.argument)]
    /\ UNCHANGED fn_args
    /\ UNCHANGED besideFn

NextRubric == CallScoreIeltsLevel2 \/ CallScoreExemption

SpecRubric == InitRubric /\ [][NextRubric]_vars

\* the score the rubric names for an overall band
RubricScore(band) ==
    CASE band >= 80000 -> 10
      [] band >= 75000 /\ band < 80000 -> 7
      [] band >= 70000 /\ band < 75000 -> 5
      [] band < 70000 -> 0

\* C24: score_exemption returns 10 for every exemption reason, the empty
\* string included, and score_ielts_level2 returns 10 for a band of at
\* least 8.0, 7 for a band in [7.5, 8.0), 5 for a band in [7.0, 7.5) and 0
\* for every band below 7.0.
C24_EnglishRubricFixed ==
    fn_ret.done =>
        /\ fn_ret.result.raised = "none"
        /\ fn_args.method = "score_exemption" => fn_ret.result.value = 10
        /\ fn_args.method = "score_ielts_level2"
              => fn_ret.result.value = RubricScore(fn_args.argument)

\* ------------------------------------------------------------------------
\* The pairwise passes: which pairs are compared, and what a comparison does
\* ------------------------------------------------------------------------
\* the step is a comparator call of worker w1 that stored its comparison
ComparisonStored == Len(pairwise') = Len(pairwise) + 1

\* the position in w1's list of the first applicant of the comparison the
\* step stored (0 when the two are not neighbours in the list)
ComparedAt ==
    LET row == pairwise'[Len(pairwise')]
        list == scores["w1"]
    IN  IF \E i \in 1..(Len(list) - 1) :
               list[i].aid = row.applicant_a_id /\ list[i + 1].aid = row.applicant_b_id
        THEN CHOOSE i \in 1..(Len(list) - 1) :
               list[i].aid = row.applicant_a_id /\ list[i + 1].aid = row.applicant_b_id
        ELSE 0

\* the comparisons stored by the ranking run stay within K * (N - 1)
ComparisonsBounded ==
    LET N == Cardinality(MiddleSet)
    IN  /\ (K = 0 \/ N < 2) => pairwise = <<>>
        /\ N >= 2 => Len(pairwise) <= K * (N - 1)
        /\ \A j \in 1..Len(pairwise) : pairwise[j].pass_index \in 0..(K - 1)
        /\ \A j, k \in 1..Len(pairwise) :
              ( /\ j # k
                /\ pairwise[j].pass_index = pairwise[k].pass_index )
              => {pairwise[j].applicant_a_id, pairwise[j].applicant_b_id}
                    # {pairwise[k].applicant_a_id, pairwise[k].applicant_b_id}

\* C25: the comparator is called only for a pair that is adjacent in the
\* pass's list and whose current scores differ by at most epsilon, each pair
\* at most once per pass; so a run with K passes over N MIDDLE applicants
\* stores at most K * (N - 1) comparisons, each with pass_index in 0..K-1,
\* and none when K = 0 or N < 2.
C25_ComparisonsAdjacentCloseBounded ==
    /\ []ComparisonsBounded
    /\ [][ComparisonStored =>
            /\ ComparedAt # 0
            /\ Abs(scores["w1"][ComparedAt].sc - scores["w1"][ComparedAt + 1].sc)
                  <= PAIRWISE_EPS
            /\ pairwise'[Len(pairwise')].pass_index = pass_idx["w1"]]_vars

\* two passes over three MIDDLE applicants have ended with four comparisons
C25_Witness ==
    /\ pc["w1"] = "idle"
    /\ outcome["w1"] = "ok"
    /\ K = 2
    /\ Cardinality(MiddleSet) = 3
    /\ Len(pairwise) = 4

\* how often each score occurs in a list of tuples
ScoreBag(list) ==
    [v \in {list[j].sc : j \in 1..Len(list)} |->
        Cardinality({j \in 1..Len(list) : list[j].sc = v})]

\* C26: when the pair at positions (i, i+1) is compared, the score at i is at
\* least the score at i+1; the comparison changes the working scores only
\* when the verdict is B and the first score is strictly greater; a verdict
\* A, a tie or equal scores leave the list as it was; and every comparison
\* leaves the multiset of working scores (and the ids' positions) unchanged.
C26_OnlyVerdictBExchangesScores ==
    [][ComparisonStored =>
        LET i == pair_i["w1"]
            list == scores["w1"]
            after == scores'["w1"]
            winner == pairwise'[Len(pairwise')].winner
        IN  /\ list[i].sc >= list[i + 1].sc
            /\ after # list => (winner = "B" /\ list[i].sc > list[i + 1].sc)
            /\ (winner \in {"A", "tie"} \/ list[i].sc = list[i + 1].sc) => after = list
            /\ ScoreBag(after) = ScoreBag(list)
            /\ Len(after) = Len(list)
            /\ \A j \in 1..Len(list) : after[j].aid = list[j].aid]_vars

\* a verdict B has just exchanged the scores of a pair: the list of the pass
\* is no longer in descending order
C26_Witness ==
    /\ pairwise # <<>>
    /\ pairwise[Len(pairwise)].winner = "B"
    /\ pc["w1"] \in {"pair", "assign"}
    /\ scores["w1"] # SortDesc(scores["w1"])

\* C27: once the run has completed, the ranking rows listed by final_rank
\* ascending carry non-increasing persisted weighted_score, also when the
\* passes exchanged scores.
C27_RanksFollowPersistedScores ==
    (pc["w1"] = "idle" /\ outcome["w1"] = "ok" /\ run_status = "completed")
    => \A a, b \in RankedSet :
          RankOf(a) < RankOf(b) => ScoreOf(a) >= ScoreOf(b)

\* the evaluation row gating reads for one agent of an applicant
RowRead(a, name) == RowsByAgent(evals[a])[name]

\* the English evaluator of the applicant raised, or its batch timed out
EnglishFailed(a) ==
    /\ Len(evals[a]["english"]) >= 1
    /\ "error" \in DOMAIN RowRead(a, "english").details

\* C28: when the English evaluator raised or the batch timed out, the stored
\* English result is error-annotated and shows neither an exemption nor a
\* test_overall, and gating decides REJECT with the reason 'No English test
\* and no exemption' whatever the other results are; so an applicant whose
\* batch hit the global timeout is gated REJECT.
C28_EnglishFailureRejects ==
    \A a \in Applicants :
        EnglishFailed(a) =>
            /\ RowRead(a, "english").score = Null
            /\ Get(RowRead(a, "english").details, "exemption") = Null
            /\ Get(RowRead(a, "english").details, "test_overall") = Null
            /\ Len(gating[a]) >= 1 =>
                  /\ gating[a][1].decision = "REJECT"
                  /\ \E j \in 1..Len(gating[a][1].reasons) :
                        gating[a][1].reasons[j] = "No English test and no exemption"

\* one applicant's English evaluator raised while its Degree result has rank
\* 50 and score 9, the other applicant's batch timed out: both gated REJECT
C28_Witness ==
    /\ Len(applicants) = 2
    /\ EnglishFailed(1)
    /\ RowRead(1, "english").details = FailedResult
    /\ RowRead(1, "degree").details = DegreeDict(JTrue, JInt(50), JInt(9))
    /\ \A name \in Dimensions :
          Len(evals[2][name]) >= 1 /\ RowRead(2, name).details = TimedOutResult
    /\ Len(gating[1]) = 1 /\ gating[1][1].decision = "REJECT"
    /\ Len(gating[2]) = 1 /\ gating[2][1].decision = "REJECT"

\* the applicant has a stored evaluation for each of the five dimensions
FullyEvaluated(a) == \A name \in Dimensions : Len(evals[a][name]) >= 1

\* C29: orchestrate_run never adds, changes or deletes the evaluation rows of
\* an applicant that has a row for each of the five dimensions: a rerun runs
\* no evaluator for it and leaves its rows as they are, the null-score rows
\* written after an exception or a timeout included.
C29_EvaluatedApplicantsUntouched ==
    [][/\ \A a \in Applicants : FullyEvaluated(a) => evals'[a] = evals[a]
       /\ (/\ pc["w1"] = "evaluate"
           /\ FullyEvaluated(applicants[cur["w1"]])) => ~RunAgents("w1")]_vars

\* the second execution has passed the evaluation loop over an applicant
\* whose five rows, all null-score timeout rows, are those of the first
C29_Witness ==
    /\ exec_no["w1"] = 2
    /\ pc["w1"] = "gating"
    /\ \A name \in Dimensions :
          /\ Len(evals[1][name]) = 1
          /\ evals[1][name][1].score = Null
          /\ evals[1][name][1].details = TimedOutResult

\* the execution of worker w1 has ended, by return or by exception
Terminated == pc["w1"] = "idle" /\ outcome["w1"] \notin {"none", "running"}

\* C30: orchestrate_run never ends leaving the run 'processing': when the
\* degree-country detection call or a comparator call raises, the run still
\* ends 'completed' or 'failed' and every applicant still has its five
\* evaluations, its gating decision and, gated MIDDLE, its rank.
C30_NeverLeftProcessing ==
    Terminated =>
        /\ run_status \in {"completed", "failed"}
        /\ outcome["w1"] \in {"detect", "compare"} =>
              \A a \in Applicants :
                  /\ FullyEvaluated(a)
                  /\ Len(gating[a]) >= 1
                  /\ gating[a][1].decision = "MIDDLE" =>
                        (Len(ranking[a]) >= 1 /\ ranking[a][1].final_rank \in 1..Len(applicants))

====
